---- MODULE Spec2Model ----
(***************************************************************************)
(* A model of the instrument gauge (lewis-carson/instrument): the          *)
(* AppState entity model fed by an mpsc channel, the per-frame drain and   *)
(* smoothing step, and the retained-mode Scene built by render_instrument. *)
(*                                                                         *)
(* Numbers.  The program computes in f64.  The model uses fixed point:     *)
(*   - raw gauge values (range, needle values, highlight bounds) are       *)
(*     integers counting 1/ValUnit;                                        *)
(*   - normalized positions (pos, target_pos in [0,1]) are integers        *)
(*     counting 1/Scale.                                                   *)
(* Every product or quotient is rounded where the code rounds an f64.      *)
(* NaN and infinities are outside the model.                               *)
(***************************************************************************)
EXTENDS Integers, Sequences, FiniteSets, TLC

VARIABLES
    pc,        \* position of the program: "setup", "idle", "drain", "layout", "render", "done"
    protocol,  \* "map" (run_window / main.rs) or "cmd" (run_window_with_commands)
    app,       \* struct AppState
    queue,     \* messages in flight in the mpsc channel
    senders,   \* number of Sender handles still alive
    running,   \* the event loop has not been told to exit
    frames,    \* RedrawRequested handlers completed
    sent,      \* messages sent so far
    drained,   \* messages received by try_recv in the current / last frame
    last_received, \* Option: the last message try_recv ever returned
    pre,       \* AppState at the start of the current / last frame
    cfg,       \* the part of InstrumentConfig that decides which commands are pushed
    scene,     \* Scene.commands
    executed,  \* the primitive calls made by Scene::render, in call order
    idx,       \* Scene::render: index of the next command of the for loop
    calls,     \* number of Needle::update_position calls made (smoothing runs)
    recv_err,  \* the Err that ended the last drain loop: "Empty", "Disconnected" ("None": no drain yet)
    producer,  \* the producer thread: its kind, position in its loop, reads and sends made
    line,      \* the input line the stdin thread read last (a sequence of tokens)
    window,    \* the event loop's fb_width, fb_height, the pixel buffer's length, the last Canvas
    frame,     \* the pixel buffer a primitive draws into: a sequence of bytes
    call,      \* the last primitive call made on frame: its arguments and outcome
    instrument \* struct Instrument: its config (range, dual_needle) and its InstrumentState

vars == <<pc, protocol, app, queue, senders, running, frames, sent, drained, last_received, pre,
          cfg, scene, executed, idx, calls, recv_err, producer, line, window, frame, call,
          instrument>>

----------------------------------------------------------------------------
(* Bounds of the model. *)

MaxSends == 2
MaxFrames == 2
NumSenders == 1

----------------------------------------------------------------------------
(* Fixed point. *)

\* one unit of a normalized position: 1.0 == Scale
Scale == 10 ^ 9
\* one unit of a raw gauge value: 1.0 == ValUnit
ValUnit == 10 ^ 3

V(x) == x * ValUnit

\* default range of the gauge
RangeMin == 0
RangeMax == 100

\* Option<T>
None == <<>>
Some(x) == <<x>>
IsSome(o) == o # <<>>
Unwrap(o) == o[1]

\* HashMap<String, f64>
EmptyMap == [k \in {} |-> 0]
Has(m, k) == k \in DOMAIN m
Insert(m, k, v) == [x \in (DOMAIN m) \cup {k} |-> IF x = k THEN v ELSE m[x]]
Extend(m, n) == [x \in (DOMAIN m) \cup (DOMAIN n) |-> IF x \in DOMAIN n THEN n[x] ELSE m[x]]

Last(s) == s[Len(s)]

\* f64::clamp
Clamp(x, lo, hi) == IF x < lo THEN lo ELSE IF x > hi THEN hi ELSE x

\* f64::min / f64::max
Min(a, b) == IF a < b THEN a ELSE b
Max(a, b) == IF a > b THEN a ELSE b

\* a / d for raw values a, d (d > 0), as a normalized fixed-point number:
\* floor(a * Scale / d), by long division so that no intermediate leaves 32 bits
FDiv(a, d) ==
    LET q0 == a \div d
        r0 == a % d
        d1 == (r0 * 1000) \div d
        r1 == (r0 * 1000) % d
        d2 == (r1 * 1000) \div d
        r2 == (r1 * 1000) % d
        d3 == (r2 * 1000) \div d
    IN  ((q0 * 1000 + d1) * 1000 + d2) * 1000 + d3

\* variant: the quotient is not clamped
normalize_unclamped(value, min, max) == FDiv(value - min, max - min)

\* ((value - min) / (max - min)).clamp(0.0, 1.0)
Normalize(value, min, max) == Clamp(FDiv(value - min, max - min), 0, Scale)

\* variant: a smoothing factor of 0.05
lerp_slow(current, target) == current + ((target - current + 10) \div 20)

\* fn lerp: current + (target - current) * 0.1, the product rounded to nearest
lerp(current, target) == current + ((target - current + 5) \div 10)

----------------------------------------------------------------------------
(* Needle *)

\* Needle::new (phase is a random number that is never read: left out)
NeedleNew == [pos |-> Scale \div 2, target_pos |-> Scale \div 2]

\* Needle::set_target_pos
set_target_pos(needle, target) == [needle EXCEPT !.target_pos = Clamp(target, 0, Scale)]

\* variant: two smoothing steps in one call
update_position_twice(needle) ==
    [needle EXCEPT !.pos = Clamp(lerp(Clamp(lerp(needle.pos, needle.target_pos), 0, Scale),
                                      needle.target_pos), 0, Scale)]

\* Needle::update_position
update_position(needle) == [needle EXCEPT !.pos = Clamp(lerp(needle.pos, needle.target_pos), 0, Scale)]

\* Needle::update_random: r is None (99%: keep the target) or Some(new target)
update_random(needle, r) == IF IsSome(r) THEN [needle EXCEPT !.target_pos = Unwrap(r)] ELSE needle

(* HighlightBounds *)

HighlightBoundsNew(lower, upper) ==
    [lower |-> lower, upper |-> upper, target_lower |-> lower, target_upper |-> upper]

\* variant: the target interval only ever widens
widen_target_bounds(bounds, lower, upper) ==
    [bounds EXCEPT !.target_lower = Min(bounds.target_lower, lower),
                   !.target_upper = Max(bounds.target_upper, upper)]

set_target_bounds(bounds, lower, upper) ==
    [bounds EXCEPT !.target_lower = lower, !.target_upper = upper]

bounds_update_position(bounds) ==
    [bounds EXCEPT !.lower = lerp(bounds.lower, bounds.target_lower),
                   !.upper = lerp(bounds.upper, bounds.target_upper)]

get_bounds(bounds) == <<bounds.lower, bounds.upper>>

----------------------------------------------------------------------------
(* AppState *)

\* AppState::new
AppStateNew(min_value, max_value) ==
    [needle1 |-> None, needle2 |-> None, current_values |-> EmptyMap,
     min_value |-> min_value, max_value |-> max_value,
     highlight_bounds |-> None, highlight_override |-> None]

\* variant: extend without clear (keys of earlier messages survive)
extend_without_clear(current, values) == Extend(current, values)

\* self.current_values.clear(); self.current_values.extend(values.clone())
clear_and_extend(current, values) == Extend(EmptyMap, values)

\* variant: a map lacking the key leaves the needle slot as it is
needle_kept_from_map(needle, values, key, min, max) ==
    IF Has(values, key)
    THEN Some(set_target_pos(IF IsSome(needle) THEN Unwrap(needle) ELSE NeedleNew,
                             Normalize(values[key], min, max)))
    ELSE needle

\* the needle slot of one drained map: created lazily, re-targeted, or removed
needle_from_map(needle, values, key, min, max) ==
    IF Has(values, key)
    THEN Some(set_target_pos(IF IsSome(needle) THEN Unwrap(needle) ELSE NeedleNew,
                             Normalize(values[key], min, max)))
    ELSE None

\* variant: the two values are taken in the order given
retarget_bounds_unordered(bounds, lower, upper) ==
    IF IsSome(bounds)
    THEN Some(set_target_bounds(Unwrap(bounds), lower, upper))
    ELSE Some(HighlightBoundsNew(lower, upper))

\* the bounds stay as they are / are re-targeted / are created
retarget_bounds(bounds, lower, upper) ==
    LET min_bound == Min(lower, upper)
        max_bound == Max(lower, upper)
    IN  IF IsSome(bounds)
        THEN Some(set_target_bounds(Unwrap(bounds), min_bound, max_bound))
        ELSE Some(HighlightBoundsNew(min_bound, max_bound))

\* variant: streamed bounds are applied even when an override is set
highlight_from_map_ignoring_override(bounds, override, values) ==
    IF Has(values, "highlightlower") /\ Has(values, "highlightupper")
    THEN retarget_bounds(bounds, values["highlightlower"], values["highlightupper"])
    ELSE None

\* the highlight slot of one drained map
highlight_from_map(bounds, override, values) ==
    IF override = None
    THEN IF Has(values, "highlightlower") /\ Has(values, "highlightupper")
         THEN retarget_bounds(bounds, values["highlightlower"], values["highlightupper"])
         ELSE None
    ELSE bounds

\* body of the drain loop of AppState::update for one received map
ApplyMap(s, values) ==
    [s EXCEPT
        !.current_values = clear_and_extend(s.current_values, values),
        !.needle1 = needle_from_map(s.needle1, values, "needle1", s.min_value, s.max_value),
        !.needle2 = needle_from_map(s.needle2, values, "needle2", s.min_value, s.max_value),
        !.highlight_bounds = highlight_from_map(s.highlight_bounds, s.highlight_override, values)]

\* the needle slot after a Set*Needle command
needle_from_command(needle, value, min, max) ==
    Some(set_target_pos(IF IsSome(needle) THEN Unwrap(needle) ELSE NeedleNew,
                        Normalize(value, min, max)))

\* variant: with an override set, SetHighlightBounds removes the bounds
highlight_from_command_or_none(bounds, override, lower, upper) ==
    IF override = None THEN retarget_bounds(bounds, lower, upper) ELSE None

\* the highlight slot after SetHighlightBounds
highlight_from_command(bounds, override, lower, upper) ==
    IF override = None THEN retarget_bounds(bounds, lower, upper) ELSE bounds

\* body of the drain loop of AppState::update_with_commands for one command
ApplyCommand(s, command) ==
    CASE command.type = "SetPrimaryNeedle" ->
            [s EXCEPT !.current_values = Insert(s.current_values, "needle1", command.a),
                      !.needle1 = needle_from_command(s.needle1, command.a, s.min_value, s.max_value)]
      [] command.type = "SetSecondaryNeedle" ->
            [s EXCEPT !.current_values = Insert(s.current_values, "needle2", command.a),
                      !.needle2 = needle_from_command(s.needle2, command.a, s.min_value, s.max_value)]
      [] command.type = "SetReadout" ->
            [s EXCEPT !.current_values = Insert(s.current_values, "readout", command.a)]
      [] command.type = "SetReadoutText" ->
            \* command.a is text.len()
            [s EXCEPT !.current_values = Insert(s.current_values, "readout_text", V(command.a))]
      [] command.type = "SetHighlightBounds" ->
            [s EXCEPT !.current_values =
                          Insert(Insert(s.current_values, "highlightlower", command.a),
                                 "highlightupper", command.b),
                      !.highlight_bounds =
                          highlight_from_command(s.highlight_bounds, s.highlight_override,
                                                 command.a, command.b)]
      [] command.type = "SetBothNeedles" ->
            [s EXCEPT !.current_values =
                          Insert(Insert(s.current_values, "needle1", command.a),
                                 "needle2", command.b),
                      !.needle1 = needle_from_command(s.needle1, command.a, s.min_value, s.max_value),
                      !.needle2 = needle_from_command(s.needle2, command.b, s.min_value, s.max_value)]

\* one received message, under either protocol
ApplyMessage(proto, s, m) == IF proto = "map" THEN ApplyMap(s, m) ELSE ApplyCommand(s, m)

\* "Update needle positions" and "Update highlight bounds position"
UpdatePositions(s) ==
    [s EXCEPT
        !.needle1 = IF IsSome(s.needle1) THEN Some(update_position(Unwrap(s.needle1))) ELSE None,
        !.needle2 = IF IsSome(s.needle2) THEN Some(update_position(Unwrap(s.needle2))) ELSE None,
        !.highlight_bounds =
            IF IsSome(s.highlight_bounds)
            THEN Some(bounds_update_position(Unwrap(s.highlight_bounds)))
            ELSE None]

\* variant: the idle walk also runs when values are known
UpdateRandomAlways(s, r1, r2) ==
    [s EXCEPT
        !.needle1 = IF IsSome(s.needle1) THEN Some(update_random(Unwrap(s.needle1), r1)) ELSE None,
        !.needle2 = IF IsSome(s.needle2) THEN Some(update_random(Unwrap(s.needle2), r2)) ELSE None]

\* "If no values received yet, do random updates" (AppState::update only)
UpdateRandom(s, r1, r2) ==
    IF DOMAIN s.current_values = {}
    THEN [s EXCEPT
            !.needle1 = IF IsSome(s.needle1) THEN Some(update_random(Unwrap(s.needle1), r1)) ELSE None,
            !.needle2 = IF IsSome(s.needle2) THEN Some(update_random(Unwrap(s.needle2), r2)) ELSE None]
    ELSE s

\* what follows the drain loop in update / update_with_commands
AfterDrain(proto, s, r1, r2) ==
    IF proto = "map" THEN UpdateRandom(UpdatePositions(s), r1, r2) ELSE UpdatePositions(s)

\* variant: only needle1 is looked at
is_out_of_range_needle1_only(s) ==
    /\ Has(s.current_values, "needle1")
    /\ \/ s.current_values["needle1"] < s.min_value
       \/ s.current_values["needle1"] > s.max_value

\* AppState::is_out_of_range
is_out_of_range(s) ==
    \/ /\ Has(s.current_values, "needle1")
       /\ \/ s.current_values["needle1"] < s.min_value
          \/ s.current_values["needle1"] > s.max_value
    \/ /\ Has(s.current_values, "needle2")
       /\ \/ s.current_values["needle2"] < s.min_value
          \/ s.current_values["needle2"] > s.max_value

\* AppState::set_highlight_override
set_highlight_override(s, lower, upper) ==
    LET min_bound == Min(lower, upper)
        max_bound == Max(lower, upper)
    IN  [s EXCEPT !.highlight_override = Some(<<min_bound, max_bound>>),
                  !.highlight_bounds =
                      IF IsSome(s.highlight_bounds)
                      THEN Some(set_target_bounds(Unwrap(s.highlight_bounds), min_bound, max_bound))
                      ELSE Some(HighlightBoundsNew(min_bound, max_bound))]

----------------------------------------------------------------------------
(* Scene / DrawCommand.                                                    *)
(* A command keeps its variant (kind), its colour, its text, the tapered   *)
(* flag and the normalized positions its angles are computed from          *)
(* (angle = start_angle + arc_span * position).  Pixel coordinates,        *)
(* lengths, thicknesses and font sizes are left out.  The field role names *)
(* the builder that pushed the command; it is an annotation, not data of   *)
(* the program.                                                            *)

White == <<255, 255, 255>>
Black == <<0, 0, 0>>
Red == <<255, 0, 0>>
Blue == <<0, 127, 255>>
NoColor == <<>>

Command(kind, role, color, text, tapered, at) ==
    [kind |-> kind, role |-> role, color |-> color, text |-> text,
     tapered |-> tapered, at |-> at]

\* Scene::add_command
add_command(commands, command) == Append(commands, command)

RECURSIVE Flatten(_)
Flatten(ss) == IF ss = <<>> THEN <<>> ELSE Head(ss) \o Flatten(Tail(ss))

\* format!("{}", value.round() as i64) of the label of tick i
LabelText(i, count, range) ==
    LET span == range[2] - range[1]
        value == range[1] + ((2 * i * span + (count - 1)) \div (2 * (count - 1)))
    IN  ToString((2 * value + ValUnit) \div (2 * ValUnit))

\* one iteration of the tick loop: major tick, minor ticks, number label
TickGroup(i, count, minor, range, color, tick_role, label_role) ==
    <<Command("Tick", tick_role, color, "", FALSE, <<FDiv(i, count - 1)>>)>>
    \o (IF i < count - 1
        THEN [j \in 1..minor |->
                Command("Tick", tick_role, color, "", FALSE,
                        <<FDiv(i * minor + j, minor * (count - 1))>>)]
        ELSE <<>>)
    \o <<Command("Text", label_role, color, LabelText(i, count, range), FALSE, <<>>)>>

\* fn build_dial_commands
build_dial_commands(range, color, highlight_range, c) ==
    (IF IsSome(highlight_range)
     THEN <<Command("HighlightBand", "band", NoColor, "", FALSE,
                    <<Normalize(Unwrap(highlight_range)[1], range[1], range[2]),
                      Normalize(Unwrap(highlight_range)[2], range[1], range[2])>>)>>
     ELSE <<>>)
    \o <<Command("Arc", "ring", color, "", FALSE, <<>>)>>
    \o Flatten([k \in 1..c.ticks_count |->
                  TickGroup(k - 1, c.ticks_count, c.minor_ticks_per_interval, range, color,
                            "tick", "label")])

\* fn build_curved_text_commands
build_curved_text_commands(color, c) ==
    <<Command("CurvedText", "curved_text", color, c.curved_text, FALSE, <<>>)>>

\* fn build_needle_commands
build_needle_commands(needle, color, role) ==
    <<Command("NeedleLine", role, color, "", TRUE, <<needle.pos>>),
      Command("NeedleLine", role, color, "", FALSE, <<needle.pos>>),
      Command("Circle", role, color, "", FALSE, <<>>)>>

\* fn build_complication_dial_commands
build_complication_dial_commands(range, color, c) ==
    <<Command("Arc", "complication_ring", color, "", FALSE, <<>>)>>
    \o Flatten([k \in 1..c.secondary_ticks_count |->
                  TickGroup(k - 1, c.secondary_ticks_count,
                            c.secondary_minor_ticks_per_interval, range, color,
                            "complication_tick", "complication_label")])

\* fn build_complication_needle_commands
build_complication_needle_commands(needle, color) ==
    <<Command("NeedleLine", "needle2", color, "", TRUE, <<needle.pos>>),
      Command("NeedleLine", "needle2", color, "", FALSE, <<needle.pos>>),
      Command("Circle", "needle2", color, "", FALSE, <<>>)>>

\* value.trunc() as i32
ReadoutInt(value) == IF value >= 0 THEN value \div ValUnit ELSE -((-value) \div ValUnit)

\* ((value.fract() * 1000.0).round() as u32).min(999): a negative fraction casts to 0
ReadoutFrac(value) == IF value >= 0 THEN Min(value % ValUnit, 999) ELSE 0

\* format!("{:03}", value_frac)
Pad3(n) == IF n < 10 THEN "00" \o ToString(n) ELSE IF n < 100 THEN "0" \o ToString(n) ELSE ToString(n)

\* variant: the box around the readout is not pushed
no_readout_box_commands(color) == <<>>

\* fn build_readout_box_commands
build_readout_box_commands(color) ==
    [k \in 1..4 |-> Command("NeedleLine", "readout", color, "", FALSE, <<>>)]

\* fn build_readout_commands
build_readout_commands(value, color) ==
    <<Command("Text", "readout", color, ToString(ReadoutInt(value)), FALSE, <<>>),
      Command("Text", "readout", color, Pad3(ReadoutFrac(value)), FALSE, <<>>)>>
    \o build_readout_box_commands(color)

\* fn build_warning_commands
build_warning_commands ==
    <<Command("Text", "warning", Red, "!", FALSE, <<>>)>>

\* the commands the second needle's branch of render_instrument pushes
needle2_commands(s, c) ==
    IF IsSome(s.needle2)
    THEN IF c.use_secondary_complication
         THEN build_complication_dial_commands(<<s.min_value, s.max_value>>, Black, c)
              \o build_complication_needle_commands(Unwrap(s.needle2), Black)
         ELSE build_needle_commands(Unwrap(s.needle2),
                                    IF is_out_of_range(s) THEN Red ELSE Blue, "needle2")
    ELSE <<>>

\* fn render_instrument: the add_command calls it makes, in call order
render_instrument(s, c) ==
    LET base_color == IF is_out_of_range(s) THEN Red ELSE Black
    IN  <<Command("Clear", "clear", White, "", FALSE, <<>>)>>
        \o build_dial_commands(<<s.min_value, s.max_value>>, base_color,
                               IF IsSome(s.highlight_bounds)
                               THEN Some(get_bounds(Unwrap(s.highlight_bounds)))
                               ELSE None, c)
        \o build_curved_text_commands(base_color, c)
        \o (IF IsSome(s.needle1)
            THEN build_needle_commands(Unwrap(s.needle1), base_color, "needle1")
            ELSE <<>>)
        \o needle2_commands(s, c)
        \o (IF Has(s.current_values, "readout")
            THEN build_readout_commands(s.current_values["readout"], base_color)
            ELSE <<>>)
        \o (IF is_out_of_range(s) THEN build_warning_commands ELSE <<>>)

\* the primitive Scene::render calls for a command
Dispatch(command) ==
    CASE command.kind = "Clear" -> "canvas.clear"
      [] command.kind = "Arc" -> "render_arc_immediate"
      [] command.kind = "HighlightBand" -> "render_highlight_band_immediate"
      [] command.kind = "Tick" -> "draw_thick_line_aa"
      [] command.kind = "Text" -> "draw_text"
      [] command.kind = "CurvedText" -> "draw_curved_text"
      [] command.kind = "NeedleLine" ->
            IF command.tapered THEN "draw_thick_line_tapered_aa" ELSE "draw_thick_line_aa"
      [] command.kind = "Circle" -> "draw_circle"

----------------------------------------------------------------------------
(* Inputs. *)

\* values a producer may publish for each key (raw units)
HighlightPairs == {<<V(80), V(20)>>, <<V(30), V(40)>>}
ReadoutValues == {V(75) + 500}

OptionalKey(key, values) == {EmptyMap} \cup {Insert(EmptyMap, key, v) : v \in values}

\* the map of one line: each slot is an Option
Line(n1, n2, hl) ==
    Extend(Extend(IF IsSome(n1) THEN Insert(EmptyMap, "needle1", Unwrap(n1)) ELSE EmptyMap,
                  IF IsSome(n2) THEN Insert(EmptyMap, "needle2", Unwrap(n2)) ELSE EmptyMap),
           IF IsSome(hl)
           THEN Insert(Insert(EmptyMap, "highlightlower", Unwrap(hl)[1]),
                       "highlightupper", Unwrap(hl)[2])
           ELSE EmptyMap)

\* parse_key_value_line: the lines of key=value pairs a producer writes (the
\* empty map is what Instrument::show sends when no value was set)
KeyValueMessages ==
    { Line(None, None, None),
      Line(Some(V(75)), None, None),
      Line(Some(V(150)), None, None),
      Line(None, Some(V(-20)), None),
      Line(Some(V(75)), Some(V(-20)), None),
      Line(Some(V(75)), None, Some(<<V(80), V(20)>>)),
      Line(Some(V(150)), None, Some(<<V(30), V(40)>>)),
      Line(None, Some(V(-20)), Some(<<V(30), V(40)>>)) }

\* spawn_input_thread: a line holding a single number sets needle1 and readout
SingleValueMessages ==
    { Insert(Insert(EmptyMap, "needle1", v), "readout", v) : v \in ReadoutValues }

\* the HashMap<String, f64> messages of the map protocol
MapMessages == KeyValueMessages \cup SingleValueMessages

Cmd(type, a, b) == [type |-> type, a |-> a, b |-> b]

\* the InstrumentCommand messages of the command protocol
CommandMessages ==
    { Cmd("SetPrimaryNeedle", V(75), 0),
      Cmd("SetSecondaryNeedle", V(-20), 0),
      Cmd("SetReadoutText", 2, 0),
      Cmd("SetBothNeedles", V(150), V(40)) }
    \cup { Cmd("SetReadout", v, 0) : v \in ReadoutValues }
    \cup { Cmd("SetHighlightBounds", p[1], p[2]) : p \in HighlightPairs }

Messages(proto) == IF proto = "map" THEN MapMessages ELSE CommandMessages

\* --highlight / InstrumentConfig.highlight_band
HighlightRanges == {None, Some(<<V(60), V(10)>>)}

\* outcomes of the 1% draw of Needle::update_random
RandomDraws == {None, Some(Scale \div 4)}

\* InstrumentConfig: the fields that decide which commands are pushed
Config(ticks, minor, complication, sticks, sminor, text) ==
    [ticks_count |-> ticks, minor_ticks_per_interval |-> minor,
     use_secondary_complication |-> complication,
     secondary_ticks_count |-> sticks, secondary_minor_ticks_per_interval |-> sminor,
     curved_text |-> text]

\* the builder's defaults
DefaultConfig == Config(11, 5, TRUE, 5, 0, "INSTRUMENT GAUGE")

\* a configuration built with fewer ticks on both dials
CompactConfig == Config(3, 2, TRUE, 2, 1, "GAUGE")

----------------------------------------------------------------------------
(* The instrument: producers, channel, event loop. *)

\* variant: the channel hands the newest message out first
enqueue_front(q, m) == <<m>> \o q

\* Sender::send on a live channel: the message joins the end of the queue
enqueue(q, m) == Append(q, m)

\* no Instrument is followed
NoInstrument == [dual_needle |-> FALSE]

\* the window and the pixel buffer are not followed
NoWindow == [program |-> "none"]
NoCall == [fn |-> "none"]

\* the producer thread is not followed step by step
NoProducer == [kind |-> "none", pc |-> "done", reads |-> 0, sends |-> 0, k |-> 0, failed |-> FALSE]

\* variant: a disconnected channel reports Disconnected before its queue is empty
try_recv_disconnect_first(q, live_senders) ==
    IF live_senders = 0 THEN "Disconnected" ELSE IF q # <<>> THEN "Ok" ELSE "Empty"

\* Receiver::try_recv: Ok(message) while a message is queued, else Empty or,
\* with every Sender dropped, Disconnected
try_recv(q, live_senders) ==
    IF q # <<>> THEN "Ok" ELSE IF live_senders = 0 THEN "Disconnected" ELSE "Empty"

\* the event loop goes on after a drain that ended with this try_recv error
loop_continues(err, run) == run

Init ==
    /\ pc = "setup"
    /\ protocol \in {"map", "cmd"}
    /\ app = AppStateNew(V(RangeMin), V(RangeMax))
    /\ queue = <<>>
    /\ senders = NumSenders
    /\ running = TRUE
    /\ frames = 0
    /\ sent = 0
    /\ drained = <<>>
    /\ last_received = None
    /\ pre = AppStateNew(V(RangeMin), V(RangeMax))
    /\ cfg = CompactConfig
    /\ scene = <<>>
    /\ executed = <<>>
    /\ idx = 1
    /\ calls = 0
    /\ recv_err = "None"
    /\ instrument = NoInstrument
    /\ window = NoWindow
    /\ frame = <<>>
    /\ call = NoCall
    /\ producer = NoProducer
    /\ line = <<>>

\* run_window / run_window_with_commands / main, up to event_loop.run
RunWindow ==
    /\ pc = "setup"
    /\ \E highlight_range \in HighlightRanges :
          app' = IF IsSome(highlight_range)
                 THEN set_highlight_override(app, Unwrap(highlight_range)[1],
                                             Unwrap(highlight_range)[2])
                 ELSE app
    /\ pc' = "idle"
    /\ UNCHANGED <<instrument, window, frame, call, producer, line, recv_err, protocol, queue, senders, running, frames, sent, drained, last_received, pre,
                   cfg, scene, executed, idx, calls>>

\* a producer's sender.send(message): the channel is unbounded
Send ==
    /\ senders > 0
    /\ running
    /\ sent < MaxSends
    /\ \E m \in Messages(protocol) : queue' = enqueue(queue, m)
    /\ sent' = sent + 1
    /\ UNCHANGED <<instrument, window, frame, call, producer, line, recv_err, pc, protocol, app, senders, running, frames, drained, last_received, pre,
                   cfg, scene, executed, idx, calls>>

\* a producer ends: its Sender is dropped
DropSender ==
    /\ senders > 0
    /\ senders' = senders - 1
    /\ UNCHANGED <<instrument, window, frame, call, producer, line, recv_err, pc, protocol, app, queue, running, frames, sent, drained, last_received, pre,
                   cfg, scene, executed, idx, calls>>

\* WindowEvent::RedrawRequested: the handler starts, app_state.update is entered
RedrawRequested ==
    /\ pc = "idle"
    /\ running
    /\ frames < MaxFrames
    /\ pc' = "drain"
    /\ drained' = <<>>
    /\ pre' = app
    /\ UNCHANGED <<instrument, window, frame, call, producer, line, recv_err, protocol, app, queue, senders, running, frames, sent, last_received,
                   cfg, scene, executed, idx, calls>>

\* while let Ok(values) = receiver.try_recv() { ... }: one iteration
TryRecvOk ==
    /\ pc = "drain"
    /\ try_recv(queue, senders) = "Ok"
    /\ app' = ApplyMessage(protocol, app, Head(queue))
    /\ queue' = Tail(queue)
    /\ drained' = Append(drained, Head(queue))
    /\ last_received' = Some(Head(queue))
    /\ UNCHANGED <<instrument, window, frame, call, producer, line, recv_err, pc, protocol, senders, running, frames, sent, pre,
                   cfg, scene, executed, idx, calls>>

\* try_recv returns Err: the loop ends, the entities advance, the frame is rendered
TryRecvErr ==
    /\ pc = "drain"
    /\ try_recv(queue, senders) # "Ok"
    /\ \E r1 \in RandomDraws, r2 \in RandomDraws : app' = AfterDrain(protocol, app, r1, r2)
    /\ running' = loop_continues(try_recv(queue, senders), running)
    /\ frames' = frames + 1
    /\ scene' = render_instrument(app', cfg)
    /\ recv_err' = try_recv(queue, senders)
    /\ pc' = "idle"
    /\ UNCHANGED <<instrument, window, frame, call, producer, line, protocol, queue, senders, sent, drained, last_received, pre,
                   cfg, executed, idx, calls>>

\* WindowEvent::CloseRequested
CloseRequested ==
    /\ pc = "idle"
    /\ running
    /\ running' = FALSE
    /\ UNCHANGED <<instrument, window, frame, call, producer, line, recv_err, pc, protocol, app, queue, senders, frames, sent, drained, last_received, pre,
                   cfg, scene, executed, idx, calls>>

Next ==
    \/ RunWindow
    \/ Send
    \/ DropSender
    \/ RedrawRequested
    \/ TryRecvOk
    \/ TryRecvErr
    \/ CloseRequested

Spec == Init /\ [][Next]_vars

----------------------------------------------------------------------------
(* Smoothing alone: Needle::update_position called again and again with a  *)
(* fixed target.                                                           *)

MaxCalls == 140

\* start positions and targets in [0,1]
SmoothGrid == {0, 1, Scale \div 4, Scale \div 3, Scale \div 2, Scale - 1, Scale}

SmoothInit ==
    /\ pc = "smooth"
    /\ protocol = "map"
    /\ \E p0 \in SmoothGrid, t \in SmoothGrid :
          app = [AppStateNew(V(RangeMin), V(RangeMax)) EXCEPT
                    !.needle1 = Some([pos |-> p0, target_pos |-> t])]
    /\ queue = <<>>
    /\ senders = 0
    /\ running = TRUE
    /\ frames = 0
    /\ sent = 0
    /\ drained = <<>>
    /\ last_received = None
    /\ pre = AppStateNew(V(RangeMin), V(RangeMax))
    /\ cfg = DefaultConfig
    /\ scene = <<>>
    /\ executed = <<>>
    /\ idx = 1
    /\ calls = 0
    /\ recv_err = "None"
    /\ instrument = NoInstrument
    /\ window = NoWindow
    /\ frame = <<>>
    /\ call = NoCall
    /\ producer = NoProducer
    /\ line = <<>>

\* needle.update_position()
UpdatePositionCall ==
    /\ pc = "smooth"
    /\ calls < MaxCalls
    /\ app' = [app EXCEPT !.needle1 = Some(update_position(Unwrap(app.needle1)))]
    /\ calls' = calls + 1
    /\ UNCHANGED <<instrument, window, frame, call, producer, line, recv_err, pc, protocol, queue, senders, running, frames, sent, drained,
                   last_received, pre, cfg, scene, executed, idx>>

SmoothNext == UpdatePositionCall

SpecSmooth == SmoothInit /\ [][SmoothNext]_vars

----------------------------------------------------------------------------
(* One frame's layout and render pass: render_instrument pushes its        *)
(* commands one add_command call at a time, then Scene::render walks them. *)

\* configurations: the defaults, the defaults without the complication, no
\* minor ticks, and a small dial
SceneConfigs ==
    { DefaultConfig,
      Config(11, 5, FALSE, 5, 0, "INSTRUMENT GAUGE"),
      Config(11, 0, TRUE, 5, 0, "GAUGE"),
      Config(3, 2, TRUE, 2, 1, "") }

\* the messages whose effect is rendered
SceneMessages ==
    { Extend(Extend(Extend(n1, n2), hl), ro) :
        n1 \in OptionalKey("needle1", {V(75), V(150)}),
        n2 \in OptionalKey("needle2", {V(40), V(-20)}),
        hl \in {EmptyMap,
                Insert(Insert(EmptyMap, "highlightlower", V(80)), "highlightupper", V(20))},
        ro \in OptionalKey("readout", ReadoutValues) }

\* for command in &self.commands: the index after i
\* variant: the loop skips every other command
render_skip(i) == i + 2

render_next(i) == i + 1

SceneInit ==
    /\ pc = "layout"
    /\ protocol = "map"
    /\ \E m \in SceneMessages :
          app = AfterDrain("map", ApplyMap(AppStateNew(V(RangeMin), V(RangeMax)), m), None, None)
    /\ queue = <<>>
    /\ senders = 0
    /\ running = TRUE
    /\ frames = 0
    /\ sent = 0
    /\ drained = <<>>
    /\ last_received = None
    /\ pre = AppStateNew(V(RangeMin), V(RangeMax))
    /\ cfg \in SceneConfigs
    /\ scene = <<>>
    /\ executed = <<>>
    /\ idx = 1
    /\ calls = 0
    /\ recv_err = "None"
    /\ instrument = NoInstrument
    /\ window = NoWindow
    /\ frame = <<>>
    /\ call = NoCall
    /\ producer = NoProducer
    /\ line = <<>>

\* scene.add_command(...): the next add_command call of render_instrument
AddCommand ==
    /\ pc = "layout"
    /\ Len(scene) < Len(render_instrument(app, cfg))
    /\ scene' = add_command(scene, render_instrument(app, cfg)[Len(scene) + 1])
    /\ UNCHANGED <<instrument, window, frame, call, producer, line, recv_err, pc, protocol, app, queue, senders, running, frames, sent, drained,
                   last_received, pre, cfg, executed, idx, calls>>

\* scene.render(canvas, config) is entered
RenderBegin ==
    /\ pc = "layout"
    /\ Len(scene) = Len(render_instrument(app, cfg))
    /\ pc' = "render"
    /\ idx' = 1
    /\ UNCHANGED <<instrument, window, frame, call, producer, line, recv_err, protocol, app, queue, senders, running, frames, sent, drained,
                   last_received, pre, cfg, scene, executed, calls>>

\* one iteration of the for loop of Scene::render
RenderCommand ==
    /\ pc = "render"
    /\ idx <= Len(scene)
    /\ executed' = Append(executed, [primitive |-> Dispatch(scene[idx]), command |-> scene[idx]])
    /\ idx' = render_next(idx)
    /\ UNCHANGED <<instrument, window, frame, call, producer, line, recv_err, pc, protocol, app, queue, senders, running, frames, sent, drained,
                   last_received, pre, cfg, scene, calls>>

\* the for loop of Scene::render ends
RenderEnd ==
    /\ pc = "render"
    /\ idx > Len(scene)
    /\ pc' = "done"
    /\ UNCHANGED <<instrument, window, frame, call, producer, line, recv_err, protocol, app, queue, senders, running, frames, sent, drained,
                   last_received, pre, cfg, scene, executed, idx, calls>>

SceneNext ==
    \/ AddCommand
    \/ RenderBegin
    \/ RenderCommand
    \/ RenderEnd

SpecScene == SceneInit /\ [][SceneNext]_vars

----------------------------------------------------------------------------
(* The producer threads: the stdin listener of main.rs and the command
   generator of bon_demo.rs, with the receiver that may be dropped. *)

MaxLines == 2

\* characters come in units: a key name, '=', a digit, or anything else
Digits == {"5", "7"}
DigitValue(d) == IF d = "5" THEN 5 ELSE 7

\* str::parse::<f64> of a token part: Some(value) for a run of digits
RECURSIVE Decimal(_, _)
Decimal(syms, acc) ==
    IF syms = <<>> THEN acc ELSE Decimal(Tail(syms), 10 * acc + DigitValue(Head(syms)))

ParseF64(syms) ==
    IF syms # <<>> /\ \A i \in 1..Len(syms) : syms[i] \in Digits
    THEN Some(V(Decimal(syms, 0)))
    ELSE None

\* pair.find('='): the first position of '=', 0 for None
find_eq(pair) ==
    IF \E i \in 1..Len(pair) : pair[i] = "="
    THEN CHOOSE i \in 1..Len(pair) : pair[i] = "=" /\ \A j \in 1..(i - 1) : pair[j] # "="
    ELSE 0

\* pair[..eq_pos].to_string()
RECURSIVE Join(_)
Join(syms) == IF syms = <<>> THEN "" ELSE Head(syms) \o Join(Tail(syms))

\* variant: the first occurrence of a key is kept
insert_if_absent(m, k, v) == IF Has(m, k) THEN m ELSE Insert(m, k, v)

\* key_values.insert(key, value)
insert_pair(m, k, v) == Insert(m, k, v)

\* fn parse_key_value_line: the loop over line.split_whitespace()
RECURSIVE ParseFrom(_, _)
ParseFrom(tokens, key_values) ==
    IF tokens = <<>>
    THEN key_values
    ELSE LET pair == Head(tokens)
             eq_pos == find_eq(pair)
             value == ParseF64(SubSeq(pair, eq_pos + 1, Len(pair)))
         IN  ParseFrom(Tail(tokens),
                       IF eq_pos > 0 /\ IsSome(value)
                       THEN insert_pair(key_values, Join(SubSeq(pair, 1, eq_pos - 1)),
                                        Unwrap(value))
                       ELSE key_values)

parse_key_value_line(l) == ParseFrom(l, EmptyMap)

\* line.contains('=')
contains_eq(l) == \E t \in 1..Len(l) : find_eq(l[t]) > 0

\* the body of the for loop of spawn_input_thread: the message it sends, if any
line_message(l) ==
    IF contains_eq(l)
    THEN LET key_values == parse_key_value_line(l)
         IN  IF DOMAIN key_values # {} THEN Some(key_values) ELSE None
    ELSE IF Len(l) = 1 /\ IsSome(ParseF64(l[1]))
         THEN Some(Insert(Insert(EmptyMap, "needle1", Unwrap(ParseF64(l[1]))),
                          "readout", Unwrap(ParseF64(l[1]))))
         ELSE None

\* the whitespace-separated tokens a line is made of
InputTokens ==
    { <<"needle1", "=", "7", "5">>,
      <<"needle1", "=", "5">>,
      <<"needle2", "=", "5">>,
      <<"needle2", "=", "x">>,
      <<"needle2", "=", "5", "=", "7">>,
      <<"junk">>,
      <<"7", "5">> }

InputLines ==
    {<<>>} \cup {<<t>> : t \in InputTokens} \cup {<<t, u>> : t \in InputTokens, u \in InputTokens}

\* let _ = sender.send(..): the stdin thread goes on whatever send returned
stdin_after_send(is_err) == "loop"

\* if commands.iter().any(|cmd| sender.send(cmd.clone()).is_err()) { break; }
demo_after_send(is_err) == IF is_err THEN "done" ELSE "loop"

\* the commands of one iteration of the generator thread of bon_demo.rs
DemoCommands ==
    <<Cmd("SetAllNeedles", V(75), V(40)),
      Cmd("SetReadout", V(75) + 500, 0),
      Cmd("SetHighlightBounds", V(20), V(80))>>

Producer(kind) ==
    [kind |-> kind, pc |-> "loop", reads |-> 0, sends |-> 0, k |-> 0, failed |-> FALSE]

ProducerInit ==
    /\ pc = "produce"
    /\ producer \in {Producer("stdin"), Producer("demo")}
    /\ protocol = (IF producer.kind = "stdin" THEN "map" ELSE "cmd")
    /\ line = <<>>
    /\ app = AppStateNew(V(RangeMin), V(RangeMax))
    /\ queue = <<>>
    /\ senders = 1
    /\ running = TRUE
    /\ frames = 0
    /\ sent = 0
    /\ drained = <<>>
    /\ last_received = None
    /\ pre = AppStateNew(V(RangeMin), V(RangeMax))
    /\ cfg = DefaultConfig
    /\ scene = <<>>
    /\ executed = <<>>
    /\ idx = 1
    /\ calls = 0
    /\ recv_err = "None"
    /\ instrument = NoInstrument
    /\ window = NoWindow
    /\ frame = <<>>
    /\ call = NoCall

\* one iteration of `for line in stdin.lock().lines()`
ReadLine ==
    /\ pc = "produce"
    /\ producer.kind = "stdin"
    /\ producer.pc = "loop"
    /\ producer.reads < MaxLines
    /\ \E l \in InputLines :
          LET message == line_message(l)
          IN  /\ line' = l
              /\ IF IsSome(message)
                 THEN /\ queue' = IF running THEN enqueue(queue, Unwrap(message)) ELSE queue
                      /\ producer' = [producer EXCEPT !.reads = @ + 1,
                                                      !.sends = @ + 1,
                                                      !.failed = @ \/ ~running,
                                                      !.pc = stdin_after_send(~running)]
                 ELSE /\ queue' = queue
                      /\ producer' = [producer EXCEPT !.reads = @ + 1]
    /\ UNCHANGED <<instrument, window, frame, call, pc, protocol, app, senders, running, frames, sent, drained, last_received,
                   pre, cfg, scene, executed, idx, calls, recv_err>>

\* stdin reaches end of file: the for loop ends and the Sender is dropped
EndOfInput ==
    /\ pc = "produce"
    /\ producer.kind = "stdin"
    /\ producer.pc = "loop"
    /\ producer' = [producer EXCEPT !.pc = "done"]
    /\ senders' = senders - 1
    /\ UNCHANGED <<instrument, window, frame, call, pc, line, protocol, app, queue, running, frames, sent, drained,
                   last_received, pre, cfg, scene, executed, idx, calls, recv_err>>

\* the generator thread: the next sender.send of commands.iter().any(..)
DemoSend ==
    /\ pc = "produce"
    /\ producer.kind = "demo"
    /\ producer.pc = "loop"
    /\ producer.reads < MaxLines
    /\ queue' = IF running THEN enqueue(queue, DemoCommands[producer.k + 1]) ELSE queue
    /\ producer' = [producer EXCEPT
                       !.sends = @ + 1,
                       !.failed = @ \/ ~running,
                       !.pc = demo_after_send(~running),
                       !.k = IF producer.k + 1 = Len(DemoCommands) THEN 0 ELSE producer.k + 1,
                       !.reads = IF producer.k + 1 = Len(DemoCommands) THEN @ + 1 ELSE @]
    /\ senders' = IF demo_after_send(~running) = "done" THEN senders - 1 ELSE senders
    /\ UNCHANGED <<instrument, window, frame, call, pc, line, protocol, app, running, frames, sent, drained, last_received,
                   pre, cfg, scene, executed, idx, calls, recv_err>>

\* event_loop.run returns: its closure is dropped and the Receiver with it
ReceiverDropped ==
    /\ pc = "produce"
    /\ running
    /\ running' = FALSE
    /\ queue' = <<>>
    /\ UNCHANGED <<instrument, window, frame, call, pc, producer, line, protocol, app, senders, frames, sent, drained,
                   last_received, pre, cfg, scene, executed, idx, calls, recv_err>>

ProducerNext ==
    \/ ReadLine
    \/ EndOfInput
    \/ DemoSend
    \/ ReceiverDropped

SpecProducer == ProducerInit /\ [][ProducerNext]_vars

----------------------------------------------------------------------------
(* The window events that size the pixel buffer and the Canvas of a frame. *)

MaxEvents == 3

\* physical sizes the window system may report
WindowSizes == {0, 2, 3}

\* Pixels::new(width, height, ..): the buffer holds width * height RGBA pixels
PixelsNew(width, height) == width * height * 4

\* pixels.resize_buffer, its Result dropped by `let _ =`: the lengths the buffer
\* may have afterwards (a zero size is refused or accepted by the library)
resize_buffer(len, width, height) ==
    IF width > 0 /\ height > 0 THEN {PixelsNew(width, height)} ELSE {len, 0}

\* pixels.resize_surface: the buffer is left as it is
resize_surface(len, width, height) == {len}

\* what the Resized handler of the program does to the buffer
resized_buffer(program, len, width, height) ==
    IF program = "lib" THEN resize_buffer(len, width, height)
    ELSE resize_surface(len, width, height)

\* Canvas::new(frame, fb_width, fb_height)
CanvasNew(len, width, height) == [len |-> len, width |-> width, height |-> height]

WindowInit ==
    /\ pc = "window"
    /\ \E program \in {"lib", "main"}, w \in WindowSizes \ {0}, h \in WindowSizes \ {0} :
          window = [program |-> program, fb_width |-> w, fb_height |-> h,
                    buffer_len |-> PixelsNew(w, h), canvas |-> None, events |-> 0,
                    event |-> "none"]
    /\ protocol = "map"
    /\ app = AppStateNew(V(RangeMin), V(RangeMax))
    /\ queue = <<>>
    /\ senders = 0
    /\ running = TRUE
    /\ frames = 0
    /\ sent = 0
    /\ drained = <<>>
    /\ last_received = None
    /\ pre = AppStateNew(V(RangeMin), V(RangeMax))
    /\ cfg = DefaultConfig
    /\ scene = <<>>
    /\ executed = <<>>
    /\ idx = 1
    /\ calls = 0
    /\ recv_err = "None"
    /\ instrument = NoInstrument
    /\ producer = NoProducer
    /\ line = <<>>
    /\ frame = <<>>
    /\ call = NoCall

\* WindowEvent::Resized(new_size)
Resized ==
    /\ pc = "window"
    /\ window.events < MaxEvents
    /\ \E w \in WindowSizes, h \in WindowSizes :
          \E len \in resized_buffer(window.program, window.buffer_len, w, h) :
              window' = [window EXCEPT !.fb_width = w, !.fb_height = h,
                                       !.buffer_len = len, !.events = @ + 1,
                                       !.event = "Resized"]
    /\ UNCHANGED <<instrument, pc, protocol, app, queue, senders, running, frames, sent, drained,
                   last_received, pre, cfg, scene, executed, idx, calls, recv_err,
                   producer, line, frame, call>>

\* WindowEvent::ScaleFactorChanged (main.rs): the size is (400 * scale, 400 * scale)
ScaleFactorChanged ==
    /\ pc = "window"
    /\ window.program = "main"
    /\ window.events < MaxEvents
    /\ \E size \in WindowSizes \ {0} :
          \E len \in resize_surface(window.buffer_len, size, size) :
              window' = [window EXCEPT !.fb_width = size, !.fb_height = size,
                                       !.buffer_len = len, !.events = @ + 1,
                                       !.event = "ScaleFactorChanged"]
    /\ UNCHANGED <<instrument, pc, protocol, app, queue, senders, running, frames, sent, drained,
                   last_received, pre, cfg, scene, executed, idx, calls, recv_err,
                   producer, line, frame, call>>

\* WindowEvent::RedrawRequested: the Canvas of the frame is constructed
RedrawCanvas ==
    /\ pc = "window"
    /\ window.events < MaxEvents
    /\ window' = [window EXCEPT
                     !.canvas = Some(CanvasNew(window.buffer_len, window.fb_width,
                                               window.fb_height)),
                     !.events = @ + 1,
                                       !.event = "RedrawRequested"]
    /\ UNCHANGED <<instrument, pc, protocol, app, queue, senders, running, frames, sent, drained,
                   last_received, pre, cfg, scene, executed, idx, calls, recv_err,
                   producer, line, frame, call>>

WindowNext ==
    \/ Resized
    \/ ScaleFactorChanged
    \/ RedrawCanvas

SpecWindow == WindowInit /\ [][WindowNext]_vars

----------------------------------------------------------------------------
(* set_pixel on a pixel buffer. *)

MaxPixelCalls == 1

\* usize is modelled with this modulus: -1 as usize is UsizeModulus - 1
UsizeModulus == 2 ^ 20

\* `x as usize` of an i32
as_usize(i) == i % UsizeModulus

\* coverage (the f32 alpha) is a number of quarters
AlphaDen == 4

\* (src * a + dst * (1.0 - a)).round() as u8
blend(src, dst, alpha) ==
    (2 * (src * alpha + dst * (AlphaDen - alpha)) + AlphaDen) \div (2 * AlphaDen)

\* variant: a coordinate equal to the width passes the test
pixel_in_bounds_inclusive(len, width, x, y) ==
    IF x <= width
    THEN IF width * 4 = 0 THEN "panic"
         ELSE IF y < len \div (width * 4) THEN "in" ELSE "out"
    ELSE "out"

\* if x < width && y < frame.len() / (width * 4): && does not evaluate the
\* division when x < width is false; a division by zero panics
pixel_in_bounds(len, width, x, y) ==
    IF x < width
    THEN IF width * 4 = 0 THEN "panic"
         ELSE IF y < len \div (width * 4) THEN "in" ELSE "out"
    ELSE "out"

\* fn set_pixel: the buffer afterwards and whether bytes were written, nothing
\* was done, or an index was out of range (panic)
set_pixel(fr, width, x, y, color, alpha) ==
    LET test == pixel_in_bounds(Len(fr), width, x, y)
        at == (y * width + x) * 4
    IN  IF test = "panic" THEN [frame |-> fr, outcome |-> "panic"]
        ELSE IF test = "out" THEN [frame |-> fr, outcome |-> "skipped"]
        ELSE IF at + 4 > Len(fr) THEN [frame |-> fr, outcome |-> "panic"]
        ELSE [frame |-> [i \in 1..Len(fr) |->
                            IF i = at + 1 THEN blend(color[1], fr[at + 1], alpha)
                            ELSE IF i = at + 2 THEN blend(color[2], fr[at + 2], alpha)
                            ELSE IF i = at + 3 THEN blend(color[3], fr[at + 3], alpha)
                            ELSE IF i = at + 4 THEN 255
                            ELSE fr[i]],
              outcome |-> "written"]

\* destination pixels the buffer starts with
DstPixels == {<<0, 0, 0, 255>>, <<10, 200, 30, 0>>, <<255, 255, 255, 128>>}

\* numbers of pixels in the buffer
FramePixels == {0, 1, 2, 3, 4}

\* i32 coordinates the callers hold, canvas widths, and coverages
PixelCoords == {-1, 0, 1, 2}
CanvasWidths == {0, 1, 2}
Coverages == {0, 2, AlphaDen}

PixelInit ==
    /\ pc = "pixel"
    /\ \E n \in FramePixels, dst \in DstPixels :
          frame = [i \in 1..(4 * n) |-> dst[((i - 1) % 4) + 1]]
    /\ call = [fn |-> "none", count |-> 0]
    /\ protocol = "map"
    /\ app = AppStateNew(V(RangeMin), V(RangeMax))
    /\ queue = <<>>
    /\ senders = 0
    /\ running = TRUE
    /\ frames = 0
    /\ sent = 0
    /\ drained = <<>>
    /\ last_received = None
    /\ pre = AppStateNew(V(RangeMin), V(RangeMax))
    /\ cfg = DefaultConfig
    /\ scene = <<>>
    /\ executed = <<>>
    /\ idx = 1
    /\ calls = 0
    /\ recv_err = "None"
    /\ instrument = NoInstrument
    /\ producer = NoProducer
    /\ line = <<>>
    /\ window = NoWindow

\* set_pixel(frame, width, x as usize, y as usize, r, g, b, alpha)
SetPixel ==
    /\ pc = "pixel"
    /\ call.count < MaxPixelCalls
    /\ \E width \in CanvasWidths, x \in PixelCoords, y \in PixelCoords,
          color \in {Red, Blue}, alpha \in Coverages :
          LET result == set_pixel(frame, width, as_usize(x), as_usize(y), color, alpha)
          IN  /\ frame' = result.frame
              /\ call' = [fn |-> "set_pixel", count |-> call.count + 1, width |-> width,
                          x |-> x, y |-> y, color |-> color, alpha |-> alpha,
                          before |-> frame, outcome |-> result.outcome]
    /\ UNCHANGED <<instrument, pc, protocol, app, queue, senders, running, frames, sent, drained,
                   last_received, pre, cfg, scene, executed, idx, calls, recv_err,
                   producer, line, window>>

PixelNext == SetPixel

SpecPixel == PixelInit /\ [][PixelNext]_vars

----------------------------------------------------------------------------
(* The per-pixel tests of the arc and the highlight band, the layout test of the
   curved text, and the normalization of values.  Angles are whole degrees. *)

MaxPrimitiveCalls == 1

FullTurn == 360

\* alphas are hundredths
AlphaOne == 100

\* render_arc_immediate: in_arc of a pixel whose atan2 angle, moved into
\* [0, 2pi), is angle
arc_in_arc(start_angle, arc_span, angle) ==
    LET end_angle == start_angle + arc_span
        start1 == IF start_angle < 0 THEN start_angle + FullTurn ELSE start_angle
        end1 == IF end_angle >= FullTurn THEN end_angle - FullTurn ELSE end_angle
        start == IF start1 < 0 THEN start1 + FullTurn ELSE start1
        end == IF end1 < 0 THEN end1 + FullTurn ELSE end1
    IN  IF start < end
        THEN angle >= start /\ angle <= end
        ELSE angle >= start \/ angle <= end

\* d.min(softness) / softness
edge_fraction(d, softness) == (Min(d, softness) * AlphaOne) \div softness

\* render_highlight_band_immediate: angular_alpha of a pixel
angular_alpha(start_angle, end_angle, angle, softness) ==
    IF start_angle <= end_angle
    THEN IF angle < start_angle
         THEN Max(AlphaOne - edge_fraction(start_angle - angle, softness), 0)
         ELSE IF angle > end_angle
         THEN Max(AlphaOne - edge_fraction(angle - end_angle, softness), 0)
         ELSE AlphaOne
    ELSE IF angle < end_angle
         THEN AlphaOne - Max(edge_fraction(end_angle - angle, softness), 0)
         ELSE IF angle > start_angle
         THEN AlphaOne - Max(edge_fraction(angle - start_angle, softness), 0)
         ELSE LET dist_to_start == IF start_angle > angle
                                   THEN start_angle - angle
                                   ELSE FullTurn - angle + start_angle
                  dist_to_end == IF angle > end_angle
                                 THEN angle - end_angle
                                 ELSE end_angle + FullTurn - angle
                  min_dist == Min(dist_to_start, dist_to_end)
              IN  Max(AlphaOne - edge_fraction(min_dist, softness), 0)

\* render_highlight_band_immediate: radial_alpha of a pixel at a whole distance
radial_alpha(dist, band_inner_radius, band_outer_radius) ==
    IF dist < band_inner_radius - 1 THEN 0
    ELSE IF dist < band_inner_radius + 1
    THEN Clamp(((dist - (band_inner_radius - 1)) * AlphaOne) \div 2, 0, AlphaOne)
    ELSE IF dist <= band_outer_radius - 1 THEN AlphaOne
    ELSE IF dist <= band_outer_radius + 1
    THEN AlphaOne - Clamp(((dist - (band_outer_radius - 1)) * AlphaOne) \div 2, 0, AlphaOne)
    ELSE 0

\* render_highlight_band_immediate: final_alpha of a pixel; the pixel is
\* written when it is above 0.01
band_final_alpha(r, start_angle, end_angle, inner_radius, outer_radius, c, angle, dist) ==
    LET band_inner_radius == Max(r - inner_radius, 0)
        band_outer_radius == Max(r - outer_radius, 0)
    IN  Clamp((angular_alpha(start_angle, end_angle, angle, c.highlight_band_edge_softness)
                 * radial_alpha(dist, band_inner_radius, band_outer_radius)
                 * c.highlight_band_alpha) \div (AlphaOne * AlphaOne),
              0, AlphaOne)

\* a glyph of font.layout: its advance width and whether it has a pixel
\* bounding box
Glyph(advance_width, inked) == [advance_width |-> advance_width, inked |-> inked]

RECURSIVE SumAdvance(_)
SumAdvance(glyphs) ==
    IF glyphs = <<>> THEN 0 ELSE Head(glyphs).advance_width + SumAdvance(Tail(glyphs))

\* position().x of glyph i: the advances before it
glyph_position(glyphs, i) == SumAdvance(SubSeq(glyphs, 1, i - 1))

\* draw_curved_text: the glyphs handed to draw_rotated_glyph_improved
draw_curved_text(glyphs) ==
    IF glyphs = <<>> THEN <<>>
    ELSE LET total_width == glyph_position(glyphs, Len(glyphs)) - glyph_position(glyphs, 1)
                              + Last(glyphs).advance_width
         IN  IF total_width <= 0 THEN <<>>
             ELSE SelectSeq(glyphs, LAMBDA g : g.inked)

\* angles of the curved text are thousandths of a radian
Milli == 1000

\* draw_curved_text: where the run is placed: its start_angle, the span
\* total_width / radius its glyphs take, and char_angle of every glyph drawn
curved_text_angles(glyphs, radius, arc_span, center_angle) ==
    LET total_width == glyph_position(glyphs, Len(glyphs)) - glyph_position(glyphs, 1)
                          + Last(glyphs).advance_width
        chars_arc_span == (total_width * Milli) \div radius
        actual_arc_span == Min(chars_arc_span, arc_span)
        start_angle == center_angle - actual_arc_span \div 2
        \* twice char_position - first_position + char_advance / 2.0
        relative_position2(i) == 2 * (glyph_position(glyphs, i) - glyph_position(glyphs, 1))
                                    + glyphs[i].advance_width
        char_angle(i) == start_angle + (relative_position2(i) * (Milli \div 2)) \div radius
        drawn == {i \in 1..Len(glyphs) : glyphs[i].inked}
    IN  IF glyphs = <<>> \/ total_width <= 0
        THEN [start_angle |-> center_angle, chars_arc_span |-> 0, angles |-> {}]
        ELSE [start_angle |-> start_angle, chars_arc_span |-> chars_arc_span,
              angles |-> {char_angle(i) : i \in drawn}]

\* variant: the loop ends after the first message
apply_first_only(proto, s, messages) ==
    IF messages = <<>> THEN s ELSE ApplyMessage(proto, s, Head(messages))

\* the drain loop of update / update_with_commands on the messages queued, in
\* queue order
RECURSIVE ApplyAll(_, _, _)
ApplyAll(proto, s, messages) ==
    IF messages = <<>> THEN s
    ELSE ApplyAll(proto, ApplyMessage(proto, s, Head(messages)), Tail(messages))

\* update_with_commands on a queue holding these commands
update_with_commands(s, commands) == AfterDrain("cmd", ApplyAll("cmd", s, commands), None, None)

\* states update_with_commands is called in: the new state, without and with a
\* highlight override, after no, one or two earlier frames of one command each
FirstFrameStates ==
    LET new == AppStateNew(V(RangeMin), V(RangeMax))
        start == {new, set_highlight_override(new, V(60), V(10))}
    IN  start \cup {update_with_commands(s0, <<c>>) : s0 \in start, c \in CommandMessages}
CommandStates ==
    FirstFrameStates
        \cup {update_with_commands(s1, <<c>>) : s1 \in FirstFrameStates, c \in CommandMessages}

\* values of the needle commands
NeedleValues == {V(-20), V(40), V(150)}

\* inputs
TextRadii == {10, 20}
TextArcSpans == {1000, 4000}
TextCenters == {0, 4712}
ArcStarts == {0, 90, 350}
ArcSpans == {20, 90, 270}
PixelAngles == {0, 5, 10, 88, 89, 90, 91, 180, 340, 350}
BandAngles == {0, 90, 180}
PixelDists == {5, 11, 12, 16, 20, 21, 25}
EdgeSoftness == {1, 2}
DialRadius == 20
BandWidth == 8
Layouts ==
    { <<>>,
      <<Glyph(0, TRUE)>>,
      <<Glyph(0, TRUE), Glyph(0, TRUE)>>,
      <<Glyph(6, TRUE)>>,
      <<Glyph(6, FALSE), Glyph(6, TRUE)>>,
      <<Glyph(6, TRUE), Glyph(0, TRUE)>>,
      <<Glyph(6, TRUE), Glyph(6, TRUE), Glyph(6, TRUE)>>,
      <<Glyph(8, TRUE), Glyph(6, FALSE), Glyph(6, TRUE), Glyph(8, TRUE)>> }
ValueRanges == {<<V(0), V(100)>>, <<V(-50), V(50)>>, <<V(20), V(120)>>}
RawValues == {V(-60), V(-50), V(0), V(20), V(27), V(50), V(100), V(120), V(150)}

PrimitiveInit ==
    /\ pc = "primitive"
    /\ call = [fn |-> "none", count |-> 0]
    /\ frame = <<>>
    /\ protocol = "map"
    /\ app = AppStateNew(V(RangeMin), V(RangeMax))
    /\ queue = <<>>
    /\ senders = 0
    /\ running = TRUE
    /\ frames = 0
    /\ sent = 0
    /\ drained = <<>>
    /\ last_received = None
    /\ pre = AppStateNew(V(RangeMin), V(RangeMax))
    /\ cfg = CompactConfig
    /\ scene = <<>>
    /\ executed = <<>>
    /\ idx = 1
    /\ calls = 0
    /\ recv_err = "None"
    /\ instrument = NoInstrument
    /\ producer = NoProducer
    /\ line = <<>>
    /\ window = NoWindow

\* one pixel of the loops of render_arc_immediate
ArcPixel ==
    /\ pc = "primitive"
    /\ call.count < MaxPrimitiveCalls
    /\ \E start_angle \in ArcStarts, arc_span \in ArcSpans, angle \in PixelAngles :
          call' = [fn |-> "render_arc_immediate", count |-> call.count + 1,
                   start_angle |-> start_angle, arc_span |-> arc_span, angle |-> angle,
                   in_arc |-> arc_in_arc(start_angle, arc_span, angle)]
    /\ UNCHANGED <<instrument, pc, frame, protocol, app, queue, senders, running, frames, sent, drained,
                   last_received, pre, cfg, scene, executed, idx, calls, recv_err,
                   producer, line, window>>

\* one pixel of the loops of render_highlight_band_immediate
BandPixel ==
    /\ pc = "primitive"
    /\ call.count < MaxPrimitiveCalls
    /\ \E start_angle \in BandAngles, end_angle \in BandAngles, angle \in PixelAngles,
          dist \in PixelDists, softness \in EdgeSoftness :
          LET config == [highlight_band_edge_softness |-> softness,
                         highlight_band_alpha |-> AlphaOne]
              final_alpha == band_final_alpha(DialRadius, start_angle, end_angle, BandWidth, 0,
                                              config, angle, dist)
          IN  call' = [fn |-> "render_highlight_band_immediate", count |-> call.count + 1,
                       start_angle |-> start_angle, end_angle |-> end_angle,
                       angle |-> angle, dist |-> dist, softness |-> softness,
                       angular_alpha |-> angular_alpha(start_angle, end_angle, angle, softness),
                       final_alpha |-> final_alpha, written |-> final_alpha > 1]
    /\ UNCHANGED <<instrument, pc, frame, protocol, app, queue, senders, running, frames, sent, drained,
                   last_received, pre, cfg, scene, executed, idx, calls, recv_err,
                   producer, line, window>>

\* draw_curved_text on the glyphs of a text
CurvedText ==
    /\ pc = "primitive"
    /\ call.count < MaxPrimitiveCalls
    /\ \E glyphs \in Layouts, radius \in TextRadii, arc_span \in TextArcSpans,
          center_angle \in TextCenters :
          call' = [fn |-> "draw_curved_text", count |-> call.count + 1,
                   glyphs |-> glyphs, radius |-> radius, arc_span |-> arc_span,
                   center_angle |-> center_angle, drawn |-> draw_curved_text(glyphs),
                   placed |-> curved_text_angles(glyphs, radius, arc_span, center_angle)]
    /\ UNCHANGED <<instrument, pc, frame, protocol, app, queue, senders, running, frames, sent, drained,
                   last_received, pre, cfg, scene, executed, idx, calls, recv_err,
                   producer, line, window>>

\* the position a value gets: as the target of a new needle in AppState::update,
\* or as an end of the highlight band in build_dial_commands
NormalizeValue ==
    /\ pc = "primitive"
    /\ call.count < MaxPrimitiveCalls
    /\ \E range \in ValueRanges, value \in RawValues,
          slot \in {"needle1", "needle2", "band_start", "band_end"} :
          LET needle == needle_from_map(None, Insert(EmptyMap, slot, value), slot,
                                        range[1], range[2])
              band == build_dial_commands(range, Black, Some(<<value, value>>), cfg)[1]
          IN  call' = [fn |-> "normalize", count |-> call.count + 1, slot |-> slot,
                       min |-> range[1], max |-> range[2], value |-> value,
                       position |-> IF slot = "band_start" THEN band.at[1]
                                    ELSE IF slot = "band_end" THEN band.at[2]
                                    ELSE Unwrap(needle).target_pos]
    /\ UNCHANGED <<instrument, pc, frame, protocol, app, queue, senders, running, frames, sent, drained,
                   last_received, pre, cfg, scene, executed, idx, calls, recv_err,
                   producer, line, window>>

PrimitiveNext == ArcPixel \/ BandPixel \/ CurvedText \/ NormalizeValue

SpecPrimitive == PrimitiveInit /\ [][PrimitiveNext]_vars

----------------------------------------------------------------------------
(* update_with_commands as a function of the state and the drained         *)
(* commands, called on the states one or two frames of commands produce.   *)

MaxCommandCalls == 1

CommandsInit ==
    /\ pc = "commands"
    /\ call = [fn |-> "none", count |-> 0]
    /\ frame = <<>>
    /\ protocol = "map"
    /\ app = AppStateNew(V(RangeMin), V(RangeMax))
    /\ queue = <<>>
    /\ senders = 0
    /\ running = TRUE
    /\ frames = 0
    /\ sent = 0
    /\ drained = <<>>
    /\ last_received = None
    /\ pre = AppStateNew(V(RangeMin), V(RangeMax))
    /\ cfg = CompactConfig
    /\ scene = <<>>
    /\ executed = <<>>
    /\ idx = 1
    /\ calls = 0
    /\ recv_err = "None"
    /\ instrument = NoInstrument
    /\ producer = NoProducer
    /\ line = <<>>
    /\ window = NoWindow

\* update_with_commands from one state, on SetBothNeedles(p, q) and on
\* SetPrimaryNeedle(p) followed by SetSecondaryNeedle(q)
BothNeedles ==
    /\ pc = "commands"
    /\ call.count < MaxCommandCalls
    /\ \E s \in CommandStates, p \in NeedleValues, q \in NeedleValues :
          call' = [fn |-> "update_with_commands", count |-> call.count + 1,
                   state |-> s, primary |-> p, secondary |-> q,
                   both |-> update_with_commands(s, <<Cmd("SetBothNeedles", p, q)>>),
                   one_by_one |-> update_with_commands(s, <<Cmd("SetPrimaryNeedle", p, 0),
                                                            Cmd("SetSecondaryNeedle", q, 0)>>)]
    /\ UNCHANGED <<instrument, pc, frame, protocol, app, queue, senders, running, frames, sent, drained,
                   last_received, pre, cfg, scene, executed, idx, calls, recv_err,
                   producer, line, window>>

CommandsNext == BothNeedles

SpecCommands == CommandsInit /\ [][CommandsNext]_vars

----------------------------------------------------------------------------
(* The drain loop with producers that never stop sending.  The number of    *)
(* messages sent is not limited; the channel is unbounded in the code, and  *)
(* only the number of messages queued at one moment is capped here.  The    *)
(* messages of the running drain are not recorded.                          *)

MaxQueue == 2

DrainInit ==
    /\ pc = "idle"
    /\ protocol \in {"map", "cmd"}
    /\ app = AppStateNew(V(RangeMin), V(RangeMax))
    /\ queue = <<>>
    /\ senders = NumSenders
    /\ running = TRUE
    /\ frames = 0
    /\ sent = 0
    /\ drained = <<>>
    /\ last_received = None
    /\ pre = AppStateNew(V(RangeMin), V(RangeMax))
    /\ cfg = CompactConfig
    /\ scene = <<>>
    /\ executed = <<>>
    /\ idx = 1
    /\ calls = 0
    /\ recv_err = "None"
    /\ instrument = NoInstrument
    /\ window = NoWindow
    /\ frame = <<>>
    /\ call = NoCall
    /\ producer = NoProducer
    /\ line = <<>>

\* the messages the producers repeat
RepeatedMessages(proto) ==
    IF proto = "map"
    THEN {Line(Some(V(75)), None, None), Line(None, Some(V(40)), None)}
    ELSE {Cmd("SetPrimaryNeedle", V(75), 0), Cmd("SetSecondaryNeedle", V(-20), 0)}

\* sender.send(message) of a producer thread, at any moment, the drain included
SendAnytime ==
    /\ senders > 0
    /\ running
    /\ Len(queue) < MaxQueue
    /\ \E m \in RepeatedMessages(protocol) : queue' = enqueue(queue, m)
    /\ UNCHANGED <<instrument, pc, protocol, app, senders, running, frames, sent, drained, last_received,
                   pre, cfg, scene, executed, idx, calls, recv_err, window, frame, call,
                   producer, line>>

\* while let Ok(values) = receiver.try_recv() { ... }: one iteration
RecvOk ==
    /\ pc = "drain"
    /\ try_recv(queue, senders) = "Ok"
    /\ app' = ApplyMessage(protocol, app, Head(queue))
    /\ queue' = Tail(queue)
    /\ last_received' = Some(Head(queue))
    /\ UNCHANGED <<instrument, pc, protocol, senders, running, frames, sent, drained, pre, cfg, scene,
                   executed, idx, calls, recv_err, window, frame, call, producer, line>>

DrainNext == SendAnytime \/ DropSender \/ RedrawRequested \/ RecvOk \/ TryRecvErr

\* the render thread is scheduled: an iteration or the exit of the loop that
\* stays possible is taken
SpecDrain ==
    DrainInit /\ [][DrainNext]_vars /\ WF_vars(RecvOk) /\ WF_vars(TryRecvErr)

----------------------------------------------------------------------------
(* The Instrument handle: Instrument::new, its setters, and show(), which   *)
(* sends current_values as the first message.                              *)

MaxSetterCalls == 2

\* config.range and the values handed to the setters
InstrumentRanges == {<<V(0), V(100)>>, <<V(-50), V(50)>>, <<V(20), V(20)>>}
SetterValues == {V(-60), V(0), V(20), V(40), V(100), V(150)}

\* Instrument::new
InstrumentNew(range, dual_needle) ==
    [range |-> range, dual_needle |-> dual_needle,
     primary_value |-> range[1],
     secondary_value |-> IF dual_needle THEN Some(range[1]) ELSE None,
     current_values |-> EmptyMap,
     shown |-> FALSE, calls |-> 0]

\* Instrument::set_value
set_value(i, value) ==
    LET clamped == Clamp(value, i.range[1], i.range[2])
    IN  [i EXCEPT !.primary_value = clamped,
                  !.current_values = Insert(Insert(i.current_values, "needle1", clamped),
                                            "readout", clamped)]

\* variant: the value is stored as given
set_primary_value_unclamped(i, value) ==
    [i EXCEPT !.primary_value = value,
              !.current_values = Insert(i.current_values, "needle1", value)]

\* Instrument::set_primary_value
set_primary_value(i, value) ==
    LET clamped == Clamp(value, i.range[1], i.range[2])
    IN  [i EXCEPT !.primary_value = clamped,
                  !.current_values = Insert(i.current_values, "needle1", clamped)]

\* Instrument::set_secondary_value
set_secondary_value(i, value) ==
    IF i.dual_needle
    THEN LET clamped_value == Clamp(value, i.range[1], i.range[2])
         IN  [i EXCEPT !.secondary_value = Some(clamped_value),
                       !.current_values = Insert(i.current_values, "needle2", clamped_value)]
    ELSE i

InstrumentInit ==
    /\ pc = "instrument"
    /\ \E range \in InstrumentRanges, dual_needle \in BOOLEAN :
          /\ instrument = InstrumentNew(range, dual_needle)
          /\ app = AppStateNew(range[1], range[2])
          /\ pre = AppStateNew(range[1], range[2])
    /\ protocol = "map"
    /\ queue = <<>>
    /\ senders = 0
    /\ running = TRUE
    /\ frames = 0
    /\ sent = 0
    /\ drained = <<>>
    /\ last_received = None
    /\ cfg = CompactConfig
    /\ scene = <<>>
    /\ executed = <<>>
    /\ idx = 1
    /\ calls = 0
    /\ recv_err = "None"
    /\ window = NoWindow
    /\ frame = <<>>
    /\ call = NoCall
    /\ producer = NoProducer
    /\ line = <<>>

\* the caller calls instrument.set_value(value) before show()
SetValue ==
    /\ pc = "instrument"
    /\ ~instrument.shown
    /\ instrument.calls < MaxSetterCalls
    /\ \E value \in SetterValues :
          instrument' = [set_value(instrument, value) EXCEPT !.calls = instrument.calls + 1]
    /\ UNCHANGED <<pc, protocol, app, queue, senders, running, frames, sent, drained,
                   last_received, pre, cfg, scene, executed, idx, calls, recv_err, window,
                   frame, call, producer, line>>

\* the caller calls instrument.set_primary_value(value) before show()
SetPrimaryValue ==
    /\ pc = "instrument"
    /\ ~instrument.shown
    /\ instrument.calls < MaxSetterCalls
    /\ \E value \in SetterValues :
          instrument' = [set_primary_value(instrument, value) EXCEPT !.calls = instrument.calls + 1]
    /\ UNCHANGED <<pc, protocol, app, queue, senders, running, frames, sent, drained,
                   last_received, pre, cfg, scene, executed, idx, calls, recv_err, window,
                   frame, call, producer, line>>

\* the caller calls instrument.set_secondary_value(value) before show()
SetSecondaryValue ==
    /\ pc = "instrument"
    /\ ~instrument.shown
    /\ instrument.calls < MaxSetterCalls
    /\ \E value \in SetterValues :
          instrument' = [set_secondary_value(instrument, value) EXCEPT !.calls = instrument.calls + 1]
    /\ UNCHANGED <<pc, protocol, app, queue, senders, running, frames, sent, drained,
                   last_received, pre, cfg, scene, executed, idx, calls, recv_err, window,
                   frame, call, producer, line>>

\* Instrument::show: the initial batch is sent and the window's first drain
\* receives it (current_values.clear(); current_values.extend(values)); the
\* needles of the window are not followed here
Show ==
    /\ pc = "instrument"
    /\ ~instrument.shown
    /\ instrument' = [instrument EXCEPT !.shown = TRUE]
    /\ sent' = sent + 1
    /\ drained' = <<instrument.current_values>>
    /\ last_received' = Some(instrument.current_values)
    /\ app' = [app EXCEPT !.current_values =
                              clear_and_extend(app.current_values, instrument.current_values)]
    /\ UNCHANGED <<pc, protocol, queue, senders, running, frames, pre, cfg, scene, executed,
                   idx, calls, recv_err, window, frame, call, producer, line>>

InstrumentNext == SetValue \/ SetPrimaryValue \/ SetSecondaryValue \/ Show

SpecInstrument == InstrumentInit /\ [][InstrumentNext]_vars

----------------------------------------------------------------------------
(* Properties. *)

NeedleSlots == {"needle1", "needle2"}

\* what a frame leaves of the entities apart from the smoothed quantities
Targets(s) ==
    [needle1 |-> IF IsSome(s.needle1) THEN Some(Unwrap(s.needle1).target_pos) ELSE None,
     needle2 |-> IF IsSome(s.needle2) THEN Some(Unwrap(s.needle2).target_pos) ELSE None,
     highlight |-> IF IsSome(s.highlight_bounds)
                   THEN Some(<<Unwrap(s.highlight_bounds).target_lower,
                               Unwrap(s.highlight_bounds).target_upper>>)
                   ELSE None,
     current_values |-> s.current_values]

\* the complete entity state
Entities(s) ==
    [needle1 |-> s.needle1, needle2 |-> s.needle2,
     highlight_bounds |-> s.highlight_bounds, current_values |-> s.current_values]

\* a frame of the map protocol has just drained at least one message
MapFrameDrained == protocol = "map" /\ pc = "idle" /\ drained # <<>>

\* every message drained in the frame carries all of the keys
AllCarry(keys) == \A i \in 1..Len(drained) : keys \subseteq DOMAIN drained[i]

\* C1: after a frame of the map protocol that drained m1..mn (n >= 1),
\* current_values is exactly mn, and every needle whose key is in mn is present
\* with target_pos = clamp((mn[key] - min) / (max - min), 0, 1).
C1_MostRecentValueWins ==
    MapFrameDrained =>
        LET mn == Last(drained)
        IN  /\ DOMAIN app.current_values = DOMAIN mn
            /\ \A k \in DOMAIN mn : app.current_values[k] = mn[k]
            /\ \A k \in NeedleSlots \cap DOMAIN mn :
                  /\ IsSome(app[k])
                  /\ Unwrap(app[k]).target_pos =
                        Clamp(FDiv(mn[k] - app.min_value, app.max_value - app.min_value),
                              0, Scale)

\* a frame drained two different messages, the last one pegging needle1 at 1
C1_Witness ==
    /\ MapFrameDrained
    /\ Len(drained) >= 2
    /\ drained[1] # Last(drained)
    /\ DOMAIN drained[1] # DOMAIN Last(drained)
    /\ Has(Last(drained), "needle1")
    /\ IsSome(app.needle1)
    /\ Unwrap(app.needle1).target_pos = Scale

\* the state AppState::update reaches from the frame's pre-state when only the
\* last drained message mn was queued
OnlyLast == AfterDrain("map", ApplyMap(pre, Last(drained)), None, None)

\* C2 as stated: after a frame that drained m1..mn the complete entity state
\* (presence, pos and target_pos of the needles; presence, current and target
\* values of the highlight bounds; current_values) equals the state reached from
\* the same pre-state with only mn queued.
C2_IntermediateValuesDropped ==
    MapFrameDrained => Entities(app) = Entities(OnlyLast)

\* C2, amended: presence and target_pos of both needles, presence and targets of
\* the highlight bounds and current_values equal those reached with only mn
\* queued; a needle's pos is equal too when every drained message carries the
\* needle's key, and the bounds' current values are equal too when an override is
\* set or the bounds existed before the frame and every drained message carries
\* both highlight keys.
C2_TargetsOfLastOnly ==
    MapFrameDrained =>
        /\ Targets(app) = Targets(OnlyLast)
        /\ \A k \in NeedleSlots : AllCarry({k}) => app[k] = OnlyLast[k]
        /\ ( \/ IsSome(pre.highlight_override)
             \/ /\ IsSome(pre.highlight_bounds)
                /\ AllCarry({"highlightlower", "highlightupper"}) )
           => app.highlight_bounds = OnlyLast.highlight_bounds

\* a frame drained two messages that both carry needle1 with different values
\* and both carry highlight bounds that differ: needle1 equals the only-mn needle
\* while the bounds' current values do not
C2_Witness ==
    /\ MapFrameDrained
    /\ Len(drained) >= 2
    /\ AllCarry({"needle1", "highlightlower", "highlightupper"})
    /\ drained[1]["needle1"] # Last(drained)["needle1"]
    /\ drained[1]["highlightlower"] # Last(drained)["highlightlower"]
    /\ ~IsSome(pre.highlight_override)
    /\ app.needle1 = OnlyLast.needle1
    /\ app.highlight_bounds # OnlyLast.highlight_bounds

\* C3: under the map protocol a needle slot is present exactly when a message
\* has been drained and the latest drained message carries the slot's key (so it
\* is absent until the first such message, created when it is drained, and set to
\* absent by a message lacking the key).
C3_NeedleLifecycle ==
    protocol = "map" =>
        \A k \in NeedleSlots :
            IsSome(app[k]) <=> (IsSome(last_received) /\ Has(Unwrap(last_received), k))

\* needle1 existed at the start of the frame and a message without its key
\* removed it, while needle2 was created
C3_Witness ==
    /\ protocol = "map"
    /\ IsSome(pre.needle1)
    /\ ~IsSome(app.needle1)
    /\ ~IsSome(pre.needle2)
    /\ IsSome(app.needle2)

\* C4: once set_highlight_override(l, u) has run, the highlight bounds are
\* present and their target is (min(l,u), max(l,u)) in every later state, whatever
\* maps or commands are drained.
C4_OverridePermanent ==
    IsSome(app.highlight_override) =>
        /\ \E hr \in HighlightRanges :
              /\ IsSome(hr)
              /\ Unwrap(app.highlight_override) =
                    <<Min(Unwrap(hr)[1], Unwrap(hr)[2]), Max(Unwrap(hr)[1], Unwrap(hr)[2])>>
        /\ IsSome(app.highlight_bounds)
        /\ Unwrap(app.highlight_bounds).target_lower = Unwrap(app.highlight_override)[1]
        /\ Unwrap(app.highlight_bounds).target_upper = Unwrap(app.highlight_override)[2]

\* with the override set, a frame drained streamed bounds and then a message
\* without them
C4_Witness ==
    /\ IsSome(app.highlight_override)
    /\ pc = "idle"
    /\ Len(drained) >= 2
    /\ \/ Has(drained[1], "highlightlower")
       \/ (protocol = "cmd" /\ drained[1].type = "SetHighlightBounds")
    /\ \/ (protocol = "map" /\ ~Has(Last(drained), "highlightlower"))
       \/ (protocol = "cmd" /\ Last(drained).type # "SetHighlightBounds")

\* the scene holds the exclamation-mark Text command
HasExclamation(commands) ==
    \E i \in 1..Len(commands) : commands[i].kind = "Text" /\ commands[i].text = "!"

Below(s, k) == Has(s.current_values, k) /\ s.current_values[k] < s.min_value
Above(s, k) == Has(s.current_values, k) /\ s.current_values[k] > s.max_value

\* a frame has been rendered: scene holds the commands render_instrument pushed
FrameRendered == pc = "idle" /\ frames >= 1

\* C5: when the last known raw value of needle1 or needle2 is below min or above
\* max, is_out_of_range is true, that needle's target_pos is exactly 0 (below) or
\* 1 (above) and the scene of the frame holds the exclamation mark; when no known
\* needle value is outside [min, max], the flag is false and the scene holds no
\* exclamation mark.
C5_OutOfRangeOnRawValue ==
    /\ \A k \in NeedleSlots :
          /\ Below(app, k) =>
                /\ is_out_of_range(app)
                /\ IsSome(app[k]) /\ Unwrap(app[k]).target_pos = 0
                /\ FrameRendered => HasExclamation(scene)
          /\ Above(app, k) =>
                /\ is_out_of_range(app)
                /\ IsSome(app[k]) /\ Unwrap(app[k]).target_pos = Scale
                /\ FrameRendered => HasExclamation(scene)
    /\ (\A k \in NeedleSlots : ~Below(app, k) /\ ~Above(app, k)) =>
          /\ ~is_out_of_range(app)
          /\ FrameRendered => ~HasExclamation(scene)

\* a frame was rendered with needle1 in range and needle2 below the range:
\* needle2 is pegged at 0 and the scene ends with the exclamation mark
C5_Witness ==
    /\ FrameRendered
    /\ Has(app.current_values, "needle1")
    /\ ~Above(app, "needle1")
    /\ Below(app, "needle2")
    /\ Unwrap(app.needle2).target_pos = 0
    /\ Unwrap(app.needle2).pos < Scale \div 2
    /\ Last(scene).text = "!"

\* distance of a needle from its target
Dist(needle) ==
    IF needle.pos >= needle.target_pos
    THEN needle.pos - needle.target_pos
    ELSE needle.target_pos - needle.pos

\* the step that ends a frame's drain after every sender was dropped
DisconnectedFrameEnd == pc = "drain" /\ senders = 0 /\ pc' = "idle"

\* C10: once every sender is dropped, a frame's drain ends only when the queue
\* is empty (queued messages are delivered first) and ends without stopping the
\* loop: the frame is counted, targets and current_values are those the drained
\* messages left (those of the frame's start when nothing was queued), present
\* needles move towards their targets, and while the window is open the next
\* frame can start.
C10_DisconnectKeepsRendering ==
    /\ [][DisconnectedFrameEnd =>
            /\ queue = <<>>
            /\ recv_err' = "Disconnected"
            /\ running' = running
            /\ frames' = frames + 1
            /\ Targets(app') = Targets(app)
            /\ drained = <<>> => Targets(app') = Targets(pre)
            /\ \A k \in NeedleSlots :
                  IsSome(app[k]) =>
                      /\ IsSome(app'[k])
                      /\ Dist(Unwrap(app'[k])) <= Dist(Unwrap(app[k]))
                      /\ Dist(Unwrap(app[k])) > 10 =>
                            Dist(Unwrap(app'[k])) < Dist(Unwrap(app[k]))]_vars
    /\ [](senders = 0 /\ running /\ pc = "idle" /\ frames < MaxFrames
            => ENABLED RedrawRequested)

\* a frame that found the channel disconnected and empty was rendered after an
\* earlier frame: the needle kept its target and moved on towards it, and the
\* loop is still running
C10_Witness ==
    /\ recv_err = "Disconnected"
    /\ senders = 0
    /\ pc = "idle"
    /\ running
    /\ frames >= 2
    /\ drained = <<>>
    /\ IsSome(pre.needle1) /\ IsSome(app.needle1)
    /\ Unwrap(app.needle1).target_pos = Unwrap(pre.needle1).target_pos
    /\ Dist(Unwrap(app.needle1)) < Dist(Unwrap(pre.needle1))

\* C6: from any pos0 in [0,1] with a fixed target_pos in [0,1], after 132 or
\* more update_position calls pos is within 1e-6 of target_pos, and pos is in
\* [0,1] after every call.
C6_SmoothingConverges ==
    pc = "smooth" =>
        LET needle == Unwrap(app.needle1)
        IN  /\ 0 <= needle.pos /\ needle.pos <= Scale
            /\ calls >= 132 => Dist(needle) <= Scale \div (10 ^ 6)

\* the 132nd call has been made on a needle that started a full scale away from
\* its target: it is within 1e-6 of the target and still short of it
C6_Witness ==
    /\ pc = "smooth"
    /\ calls = 132
    /\ Unwrap(app.needle1).target_pos = Scale
    /\ Dist(Unwrap(app.needle1)) > 9 * (Scale \div (10 ^ 7))
    /\ Dist(Unwrap(app.needle1)) <= Scale \div (10 ^ 6)

\* the layout pass is over: scene holds every command of the frame
SceneComplete == pc \in {"render", "done"}

\* number of commands of the scene with one of the roles
CountRoles(roles) == Cardinality({i \in 1..Len(scene) : scene[i].role \in roles})

\* commands of the scene other than Clear
NonClear == Cardinality({i \in 1..Len(scene) : scene[i].kind # "Clear"})

\* the scene's commands are in non-decreasing rank; roles of rank 0 are not ordered
Ordered(rank(_)) ==
    \A i \in 1..Len(scene), j \in 1..Len(scene) :
        (i < j /\ rank(scene[i].role) > 0 /\ rank(scene[j].role) > 0)
            => rank(scene[i].role) <= rank(scene[j].role)

\* a highlight band, the dial ring, 11 ticks, one needle (needle1) and a readout
BandRingElevenTicksNeedleReadout ==
    /\ SceneComplete
    /\ IsSome(app.highlight_bounds)
    /\ cfg.ticks_count = 11
    /\ IsSome(app.needle1) /\ ~IsSome(app.needle2)
    /\ Has(app.current_values, "readout")

RankBandRingTicksNeedleReadout(role) ==
    CASE role = "band" -> 1
      [] role = "ring" -> 2
      [] role \in {"tick", "label"} -> 3
      [] role \in {"needle1", "needle2"} -> 4
      [] role = "readout" -> 5
      [] OTHER -> 0

\* C7 as stated: such a scene holds exactly 11 + 4 = 15 commands apart from
\* Clear, in the relative order band, ring, ticks, needle, readout.
C7_FifteenCommandsInOrder ==
    (BandRingElevenTicksNeedleReadout /\ ~is_out_of_range(app)) =>
        /\ NonClear = 15
        /\ Ordered(RankBandRingTicksNeedleReadout)

RankWithCurvedTextAndWarning(role) ==
    CASE role = "band" -> 1
      [] role = "ring" -> 2
      [] role \in {"tick", "label"} -> 3
      [] role = "curved_text" -> 4
      [] role \in {"needle1", "needle2"} -> 5
      [] role = "readout" -> 6
      [] role = "warning" -> 7
      [] OTHER -> 0

\* C7, amended: such a scene holds, apart from Clear, 1 highlight band, 1 dial
\* ring, 11 major ticks, 10 * minor_ticks_per_interval minor ticks, 11 labels,
\* 1 curved text, 3 needle commands and 6 readout commands, that is
\* 34 + 10 * minor_ticks_per_interval commands (84 with the default 5), plus the
\* warning glyph when a needle value is out of range, in the relative order band,
\* ring, ticks with their labels, curved text, needle, readout, warning.
C7_SceneCommandsInOrder ==
    BandRingElevenTicksNeedleReadout =>
        /\ CountRoles({"band"}) = 1
        /\ CountRoles({"ring"}) = 1
        /\ CountRoles({"tick"}) = 11 + 10 * cfg.minor_ticks_per_interval
        /\ CountRoles({"label"}) = 11
        /\ CountRoles({"curved_text"}) = 1
        /\ CountRoles({"needle1"}) = 3
        /\ CountRoles({"readout"}) = 6
        /\ CountRoles({"warning"}) = (IF is_out_of_range(app) THEN 1 ELSE 0)
        /\ NonClear = 34 + 10 * cfg.minor_ticks_per_interval
                         + (IF is_out_of_range(app) THEN 1 ELSE 0)
        /\ Ordered(RankWithCurvedTextAndWarning)

\* the complete scene of the default configuration for an in-range needle1, a
\* highlight band and a readout: 84 commands after Clear
C7_Witness ==
    /\ BandRingElevenTicksNeedleReadout
    /\ ~is_out_of_range(app)
    /\ cfg.minor_ticks_per_interval = 5
    /\ NonClear = 84
    /\ scene[2].role = "band"
    /\ Last(scene).role = "readout"

\* the ring of the complication is left unordered against the ticks of the main
\* dial: only its ticks and labels are ranked
RankZOrder(role) ==
    CASE role \in {"band", "ring"} -> 1
      [] role \in {"tick", "label", "complication_tick", "complication_label"} -> 2
      [] role \in {"needle1", "needle2"} -> 3
      [] role = "readout" -> 4
      [] role = "warning" -> 5
      [] OTHER -> 0

\* C8: in every complete scene all highlight-band and dial-ring commands come
\* before all tick and label commands, which come before all needle commands,
\* which come before all readout commands, which come before the warning glyph.
C8_ZOrder == SceneComplete => Ordered(RankZOrder)

\* C9: when Scene::render has ended, the primitive calls made are those of the
\* scene's commands, one call per command, in push order; and every add_command
\* step lengthens the scene by one and leaves the earlier commands in place.
C9_RenderInPushOrder ==
    /\ [](pc = "done" =>
            /\ Len(executed) = Len(scene)
            /\ \A i \in 1..Len(scene) :
                  /\ executed[i].command = scene[i]
                  /\ executed[i].primitive = Dispatch(scene[i]))
    /\ [][scene' # scene =>
            /\ Len(scene') = Len(scene) + 1
            /\ \A i \in 1..Len(scene) : scene'[i] = scene[i]]_vars

\* Scene::render has ended on a scene of both needles, the complication dial,
\* the readout and the warning glyph, and made one call per command
C9_Witness ==
    /\ pc = "done"
    /\ Len(scene) > 20
    /\ Len(executed) = Len(scene)
    /\ executed[2].command.role # Last(executed).command.role
    /\ Last(executed).command.role = "warning"
    /\ CountRoles({"complication_tick"}) > 0

\* C11: after a send of the producer thread has failed, the producer makes no
\* further send and reads no further input: it has left its loop.
C11_ProducerStopsOnSendFailure ==
    /\ [](producer.failed => producer.pc = "done")
    /\ [][producer.failed =>
            /\ producer'.sends = producer.sends
            /\ producer'.reads = producer.reads]_vars

\* new is old moved one tenth of the way to target (to the nearest unit)
OneSmoothingStep(old, new, target) ==
    /\ (target - old) - 10 * (new - old) <= 5
    /\ (target - old) - 10 * (new - old) >= -5

\* the step that ends a frame whose first try_recv found the queue empty
EmptyFrameEnd == pc = "drain" /\ drained = <<>> /\ pc' = "idle"

\* C12: a frame that finds the queue empty, under either protocol, leaves
\* current_values, the presence of both needles, every target_pos and the
\* presence and targets of the highlight bounds unchanged; pos, lower and upper
\* move by one smoothing step towards their targets.
C12_EmptyQueueSteadyState ==
    [][EmptyFrameEnd =>
        /\ Targets(app') = Targets(app)
        /\ app'.highlight_override = app.highlight_override
        /\ \A k \in NeedleSlots :
              IsSome(app[k]) =>
                  OneSmoothingStep(Unwrap(app[k]).pos, Unwrap(app'[k]).pos,
                                   Unwrap(app[k]).target_pos)
        /\ IsSome(app.highlight_bounds) =>
              /\ OneSmoothingStep(Unwrap(app.highlight_bounds).lower,
                                  Unwrap(app'.highlight_bounds).lower,
                                  Unwrap(app.highlight_bounds).target_lower)
              /\ OneSmoothingStep(Unwrap(app.highlight_bounds).upper,
                                  Unwrap(app'.highlight_bounds).upper,
                                  Unwrap(app.highlight_bounds).target_upper)]_vars

\* a frame found the queue empty while a sender was still alive: the needle and
\* the highlight bounds kept their targets and both moved on towards them
C12_Witness ==
    /\ pc = "idle"
    /\ frames >= 2
    /\ drained = <<>>
    /\ recv_err = "Empty"
    /\ senders > 0
    /\ IsSome(pre.needle1) /\ IsSome(app.needle1)
    /\ Unwrap(app.needle1).target_pos = Unwrap(pre.needle1).target_pos
    /\ Unwrap(app.needle1).pos # Unwrap(pre.needle1).pos
    /\ IsSome(pre.highlight_bounds) /\ IsSome(app.highlight_bounds)
    /\ Unwrap(app.highlight_bounds).lower # Unwrap(pre.highlight_bounds).lower
    /\ Unwrap(app.highlight_bounds).target_lower = Unwrap(pre.highlight_bounds).target_lower

\* the value a command gives to a needle slot (None: the command leaves it alone)
SlotValue(command, slot) ==
    CASE command.type = "SetPrimaryNeedle" /\ slot = "needle1" -> Some(command.a)
      [] command.type = "SetSecondaryNeedle" /\ slot = "needle2" -> Some(command.a)
      [] command.type = "SetBothNeedles" /\ slot = "needle1" -> Some(command.a)
      [] command.type = "SetBothNeedles" /\ slot = "needle2" -> Some(command.b)
      [] OTHER -> None

\* positions of the drained commands that set the slot
Setting(slot) == {i \in 1..Len(drained) : IsSome(SlotValue(drained[i], slot))}

LatestOf(S) == CHOOSE i \in S : \A j \in S : j <= i

\* C13: a producer's send is enabled whatever the queue holds and wherever the
\* render thread is; the queue only changes by a send appending at its end or by
\* try_recv taking (and applying) its head; and after a drain of the command
\* protocol every needle slot set in the drain has the target of the latest-sent
\* command that set it.
C13_OrderedNonBlockingChannel ==
    /\ []((senders > 0 /\ running /\ sent < MaxSends) => ENABLED Send)
    /\ [][queue' # queue =>
            \/ \E m \in Messages(protocol) : queue' = Append(queue, m)
            \/ /\ queue # <<>>
               /\ queue' = Tail(queue)
               /\ drained' = Append(drained, Head(queue))]_vars
    /\ []((protocol = "cmd" /\ pc = "idle") =>
            \A slot \in NeedleSlots :
                Setting(slot) # {} =>
                    /\ IsSome(app[slot])
                    /\ Unwrap(app[slot]).target_pos =
                          Clamp(FDiv(Unwrap(SlotValue(drained[LatestOf(Setting(slot))], slot))
                                        - app.min_value,
                                     app.max_value - app.min_value), 0, Scale))

\* one drain applied SetBothNeedles(150, 40) and then SetPrimaryNeedle(75), both
\* sent while the queue was not being drained: needle1 aims at 0.75
C13_Witness ==
    /\ protocol = "cmd"
    /\ pc = "idle"
    /\ Len(drained) = 2
    /\ drained[1].type = "SetBothNeedles"
    /\ drained[2].type = "SetPrimaryNeedle"
    /\ drained[1].a # drained[2].a
    /\ Unwrap(app.needle1).target_pos = 3 * (Scale \div 4)
    /\ Unwrap(app.needle2).target_pos = 2 * (Scale \div 5)

\* token t of the line is a key=<f64> pair: it has an '=', and what follows its
\* first '=' is a number
ValidPair(token) ==
    \E i \in 1..Len(token) :
        /\ token[i] = "="
        /\ \A j \in 1..(i - 1) : token[j] # "="
        /\ i < Len(token)
        /\ \A j \in (i + 1)..Len(token) : token[j] \in Digits

KeyOf(token) == Join(SubSeq(token, 1, find_eq(token) - 1))

\* the number written after the '=' of a valid pair, read digit by digit
NumberOf(token) ==
    LET digits == SubSeq(token, find_eq(token) + 1, Len(token))
    IN  IF Len(digits) = 1
        THEN V(DigitValue(digits[1]))
        ELSE V(10 * DigitValue(digits[1]) + DigitValue(digits[2]))

ValidPositions(l) == {t \in 1..Len(l) : ValidPair(l[t])}

\* the line is a single number
SingleNumber(l) == Len(l) = 1 /\ \A i \in 1..Len(l[1]) : l[1][i] \in Digits

\* the step in which the stdin thread reads a line
LineRead == producer'.reads = producer.reads + 1 /\ producer.kind = "stdin"

\* C14: a line in which no token parses sends no message and changes nothing of
\* the instrument; a line with valid and invalid tokens sends exactly the valid
\* key=value pairs, the last occurrence of a repeated key; and after either the
\* input thread is still in its loop, able to read the next line.
C14_MalformedInputAbsorbed ==
    /\ [][LineRead =>
            LET l == line'
                valid == ValidPositions(l)
            IN  /\ (valid = {} /\ ~SingleNumber(l)) =>
                      /\ queue' = queue
                      /\ producer'.sends = producer.sends
                      /\ app' = app
                /\ (valid # {} /\ running) =>
                      /\ Len(queue') = Len(queue) + 1
                      /\ DOMAIN Last(queue') = {KeyOf(l[t]) : t \in valid}
                      /\ \A t \in valid :
                            (\A u \in valid : KeyOf(l[u]) = KeyOf(l[t]) => u <= t)
                                => Last(queue')[KeyOf(l[t])] = NumberOf(l[t])
                /\ producer'.pc = "loop"]_vars
    /\ []((producer.kind = "stdin" /\ producer.pc = "loop" /\ producer.reads < MaxLines)
            => ENABLED ReadLine)

\* the thread read a line that sent nothing and then the line
\* "needle1=75 needle1=5": the queue holds one message, needle1 = 5
C14_Witness ==
    /\ producer.kind = "stdin"
    /\ producer.reads = 2
    /\ producer.sends = 1
    /\ line = <<<<"needle1", "=", "7", "5">>, <<"needle1", "=", "5">>>>
    /\ Len(queue) = 1
    /\ DOMAIN queue[1] = {"needle1"}
    /\ queue[1]["needle1"] = V(5)

\* C15: every Canvas constructed for a frame, after any sequence of Resized,
\* ScaleFactorChanged and RedrawRequested events, has
\* frame.len() = width * height * 4.
C15_CanvasSizeInvariant ==
    (pc = "window" /\ IsSome(window.canvas)) =>
        Unwrap(window.canvas).len = Unwrap(window.canvas).width * Unwrap(window.canvas).height * 4

\* the i32 coordinates of the call are outside the rows and columns the buffer
\* holds at the call's width
OutsideBuffer ==
    \/ call.x < 0 \/ call.y < 0
    \/ call.x >= call.width
    \/ call.width = 0
    \/ call.y >= Len(call.before) \div (call.width * 4)

\* byte offset of the pixel of the call
PixelAt == (call.y * call.width + call.x) * 4

\* C16: a set_pixel call with x >= width or y >= frame.len()/(width*4), negative
\* coordinates cast to usize included, changes no byte and does not fail; a call
\* with in-bounds coordinates writes only the four bytes of its pixel, all of them
\* inside the buffer, whatever the buffer's length is.
C16_OutOfBoundsIgnored ==
    call.fn = "set_pixel" =>
        /\ call.outcome # "panic"
        /\ Len(frame) = Len(call.before)
        /\ OutsideBuffer => (frame = call.before /\ call.outcome = "skipped")
        /\ ~OutsideBuffer =>
              /\ call.outcome = "written"
              /\ PixelAt + 4 <= Len(frame)
              /\ \A i \in 1..Len(frame) :
                    (i <= PixelAt \/ i > PixelAt + 4) => frame[i] = call.before[i]

\* a call with x = -1 on a buffer of three pixels used at width 2 (one and a
\* half rows): nothing was written
C16_Witness ==
    /\ call.fn = "set_pixel"
    /\ call.x = -1
    /\ call.y = 0
    /\ call.width = 2
    /\ call.alpha = AlphaDen
    /\ Len(call.before) = 12
    /\ frame = call.before

C18_ArcAngularTest ==
    call.fn = "render_arc_immediate" =>
        /\ call.in_arc <=> ((call.angle - call.start_angle) % FullTurn < call.arc_span)
        /\ (call.start_angle = 350 /\ call.arc_span = 20) =>
              /\ call.angle = 5 => call.in_arc
              /\ call.angle = 340 => ~call.in_arc

\* C19: draw_curved_text draws no glyph for an empty text or a text whose total
\* advance width is zero, and render_highlight_band_immediate writes no pixel
\* when start_angle equals end_angle.
C19_DegenerateInputsDrawNothing ==
    /\ (call.fn = "draw_curved_text"
            /\ (call.glyphs = <<>> \/ SumAdvance(call.glyphs) = 0)) => call.drawn = <<>>
    /\ (call.fn = "render_highlight_band_immediate"
            /\ call.start_angle = call.end_angle) => ~call.written

\* C20: with max > min, the position of a value v is (v - min) / (max - min),
\* unclamped, when min <= v <= max, exactly 0 when v < min and exactly 1 when
\* v > max, for needle1, needle2 and both ends of the highlight band alike.
C20_Normalization ==
    call.fn = "normalize" =>
        call.position = IF call.value < call.min THEN 0
                        ELSE IF call.value > call.max THEN Scale
                        ELSE FDiv(call.value - call.min, call.max - call.min)

\* an end of the highlight band at a value inside a range that does not start
\* at 0: 7 hundredths of the way
C20_Witness ==
    /\ call.fn = "normalize"
    /\ call.slot = "band_end"
    /\ call.value = V(27)
    /\ call.min = V(20)
    /\ call.max = V(120)
    /\ call.position = 7 * (Scale \div 100)

\* C21: every frame's drain terminates: a frame that has entered the drain loop
\* of update / update_with_commands leaves it and is rendered, also when
\* producers keep sending while the drain runs.
C21_DrainTerminates == (pc = "drain") ~> (pc = "idle")

\* the step that ends a frame's drain: what follows the loop runs
FrameEnd == pc = "drain" /\ pc' = "idle"

\* a step inside the drain loop: one message is applied
DrainStep == pc = "drain" /\ pc' = "drain" /\ app' # app

\* C22: each call of update / update_with_commands advances every needle present
\* after the drain, and the highlight bounds if present, by exactly one smoothing
\* step towards the post-drain target, whatever the number of messages drained:
\* applying a message moves no pos, lower or upper, a needle created by a message
\* has pos 0.5, and the one step is taken when the loop has ended.
C22_OneSmoothingStepPerFrame ==
    /\ [][FrameEnd =>
            /\ \A k \in NeedleSlots :
                  /\ IsSome(app'[k]) <=> IsSome(app[k])
                  /\ IsSome(app[k]) =>
                        OneSmoothingStep(Unwrap(app[k]).pos, Unwrap(app'[k]).pos,
                                         Unwrap(app[k]).target_pos)
            /\ IsSome(app'.highlight_bounds) <=> IsSome(app.highlight_bounds)
            /\ IsSome(app.highlight_bounds) =>
                  /\ OneSmoothingStep(Unwrap(app.highlight_bounds).lower,
                                      Unwrap(app'.highlight_bounds).lower,
                                      Unwrap(app.highlight_bounds).target_lower)
                  /\ OneSmoothingStep(Unwrap(app.highlight_bounds).upper,
                                      Unwrap(app'.highlight_bounds).upper,
                                      Unwrap(app.highlight_bounds).target_upper)]_vars
    /\ [][DrainStep =>
            /\ \A k \in NeedleSlots :
                  IsSome(app'[k]) =>
                      Unwrap(app'[k]).pos = IF IsSome(app[k]) THEN Unwrap(app[k]).pos
                                            ELSE Scale \div 2
            /\ (IsSome(app.highlight_bounds) /\ IsSome(app'.highlight_bounds)) =>
                  /\ Unwrap(app'.highlight_bounds).lower = Unwrap(app.highlight_bounds).lower
                  /\ Unwrap(app'.highlight_bounds).upper = Unwrap(app.highlight_bounds).upper]_vars

\* a frame drained two messages, the first of them creating needle1: after the
\* frame needle1 is one step away from 0.5, towards the target the second left
C22_Witness ==
    /\ pc = "idle"
    /\ Len(drained) >= 2
    /\ ~IsSome(pre.needle1)
    /\ IsSome(ApplyMessage(protocol, pre, drained[1]).needle1)
    /\ IsSome(app.needle1)
    /\ Unwrap(app.needle1).target_pos
          # Unwrap(ApplyMessage(protocol, pre, drained[1]).needle1).target_pos
    /\ Unwrap(app.needle1).pos # Scale \div 2
    /\ OneSmoothingStep(Scale \div 2, Unwrap(app.needle1).pos, Unwrap(app.needle1).target_pos)

\* C23: whenever is_out_of_range is true, every command of the scene other than
\* Clear and the highlight band carries the alert colour (0xff, 0x00, 0x00), the
\* commands of the complication dial and of its needle included.
C23_AlertPalette ==
    (SceneComplete /\ is_out_of_range(app)) =>
        \A i \in 1..Len(scene) :
            (scene[i].kind # "Clear" /\ scene[i].role # "band") => scene[i].color = Red

\* distance of two angles around the circle
AngleDist(a, b) == Min((a - b) % FullTurn, (b - a) % FullTurn)

C25_CurvedTextCenteredAndBounded ==
    (call.fn = "draw_curved_text" /\ call.drawn # <<>>) =>
        /\ 2 * call.placed.start_angle + call.placed.chars_arc_span = 2 * call.center_angle
        /\ \A a \in call.placed.angles :
              /\ 2 * a >= 2 * call.center_angle - call.arc_span
              /\ 2 * a <= 2 * call.center_angle + call.arc_span

\* C26: under the map protocol a present needle has its key in current_values
\* in every reachable state, so the idle walk, which runs only in frames that end
\* with current_values empty, never re-targets a needle with a known value: the
\* target of a present needle is always the normalized known value.
C26_IdleWalkNeverTouchesKnownNeedle ==
    protocol = "map" =>
        \A k \in NeedleSlots :
            IsSome(app[k]) =>
                /\ Has(app.current_values, k)
                /\ Unwrap(app[k]).target_pos =
                      Normalize(app.current_values[k], app.min_value, app.max_value)

\* two frames have ended, the second without any message: needle1 still has the
\* target of its known value
C26_Witness ==
    /\ protocol = "map"
    /\ pc = "idle"
    /\ frames >= 2
    /\ drained = <<>>
    /\ IsSome(app.needle1)
    /\ Has(app.current_values, "needle1")
    /\ Unwrap(app.needle1).target_pos # Scale \div 2
    /\ Unwrap(app.needle1).target_pos = Unwrap(pre.needle1).target_pos

\* C27: in every reachable state with highlight bounds present,
\* target_lower <= target_upper and lower <= upper, and every HighlightBand
\* command of a rendered scene has its start position at or before its end
\* position (start_angle <= end_angle: the renderer's wrap branch is not taken).
C27_HighlightBoundsOrdered ==
    /\ IsSome(app.highlight_bounds) =>
          /\ Unwrap(app.highlight_bounds).target_lower <= Unwrap(app.highlight_bounds).target_upper
          /\ Unwrap(app.highlight_bounds).lower <= Unwrap(app.highlight_bounds).upper
    /\ \A i \in 1..Len(scene) :
          scene[i].kind = "HighlightBand" => scene[i].at[1] <= scene[i].at[2]

\* the bounds were re-targeted by a message giving the larger value as
\* highlightlower, have moved towards the new targets, and the band was rendered
C27_Witness ==
    /\ protocol = "map"
    /\ FrameRendered
    /\ IsSome(last_received)
    /\ Has(Unwrap(last_received), "highlightlower")
    /\ Unwrap(last_received)["highlightlower"] > Unwrap(last_received)["highlightupper"]
    /\ IsSome(app.highlight_bounds)
    /\ Unwrap(app.highlight_bounds).target_lower = Unwrap(last_received)["highlightupper"]
    /\ Unwrap(app.highlight_bounds).lower # Unwrap(app.highlight_bounds).target_lower
    /\ \E i \in 1..Len(scene) :
          scene[i].kind = "HighlightBand" /\ scene[i].at[1] < scene[i].at[2]

\* C28: under the command protocol no step removes state: a needle that is
\* present stays present, highlight bounds that are present stay present, and no
\* key leaves current_values; so the alert of an out-of-range value ends only with
\* a command that changes the value of a slot that was out of range.
C28_CommandsNeverRemoveState ==
    [][protocol = "cmd" =>
        /\ \A k \in NeedleSlots : IsSome(app[k]) => IsSome(app'[k])
        /\ IsSome(app.highlight_bounds) => IsSome(app'.highlight_bounds)
        /\ DOMAIN app.current_values \subseteq DOMAIN app'.current_values
        /\ (is_out_of_range(app) /\ ~is_out_of_range(app')) =>
              \E k \in NeedleSlots :
                  /\ Below(app, k) \/ Above(app, k)
                  /\ app'.current_values[k] # app.current_values[k]]_vars

\* needle2 was sent out of range by one command and a later SetReadout command
\* was drained: needle2, its value and the alert are still there
C28_Witness ==
    /\ protocol = "cmd"
    /\ IsSome(last_received)
    /\ Unwrap(last_received).type = "SetReadout"
    /\ IsSome(app.needle2)
    /\ Below(app, "needle2")
    /\ Has(app.current_values, "readout")
    /\ is_out_of_range(app)

\* C29: from every state, a drain of SetBothNeedles(p, s) and a drain of
\* SetPrimaryNeedle(p) followed by SetSecondaryNeedle(s) leave the same state:
\* the same needles present with the same target_pos (and pos), the same
\* current_values, the same highlight bounds.
C29_SetBothNeedlesEquivalence ==
    call.fn = "update_with_commands" =>
        /\ Entities(call.both) = Entities(call.one_by_one)
        /\ Targets(call.both) = Targets(call.one_by_one)
        /\ IsSome(call.both.needle1) /\ IsSome(call.both.needle2)

\* both needles existed with other targets, the readout was known; both ways
\* leave needle1 at target 1 (150 is above the range) and needle2 at target 0.4
C29_Witness ==
    /\ call.fn = "update_with_commands"
    /\ IsSome(call.state.needle1)
    /\ IsSome(call.state.needle2)
    /\ call.primary = V(150)
    /\ call.secondary = V(40)
    /\ Unwrap(call.state.needle1).target_pos # Scale
    /\ Unwrap(call.one_by_one.needle1).target_pos = Scale
    /\ Unwrap(call.one_by_one.needle2).target_pos = 2 * (Scale \div 5)
    /\ call.one_by_one.current_values["needle1"] = V(150)
    /\ call.both.current_values["needle2"] = V(40)

\* v lies in the range of the instrument
InRange(v) == instrument.range[1] <= v /\ v <= instrument.range[2]

\* C30: after any sequence of set_value, set_primary_value and
\* set_secondary_value on an Instrument with range (min, max), min <= max,
\* primary_value and every entry of current_values lie in [min, max]; without
\* dual_needle, set_secondary_value changes nothing (no secondary value, no
\* needle2 entry); and the batch show() sends does not raise the out-of-range
\* alert.
C30_SettersKeepValuesInRange ==
    pc = "instrument" =>
        /\ InRange(instrument.primary_value)
        /\ \A k \in DOMAIN instrument.current_values : InRange(instrument.current_values[k])
        /\ IsSome(instrument.secondary_value) => InRange(Unwrap(instrument.secondary_value))
        /\ ~instrument.dual_needle =>
              /\ instrument.secondary_value = None
              /\ ~Has(instrument.current_values, "needle2")
        /\ instrument.shown =>
              /\ app.current_values = instrument.current_values
              /\ ~is_out_of_range(app)

\* two setters were called with values outside the range, one on each side, and
\* show() has sent the two clamped values
C30_Witness ==
    /\ pc = "instrument"
    /\ instrument.shown
    /\ instrument.calls = 2
    /\ instrument.range = <<V(-50), V(50)>>
    /\ Has(app.current_values, "needle1")
    /\ Has(app.current_values, "needle2")
    /\ app.current_values["needle1"] = V(50)
    /\ app.current_values["needle2"] = V(-50)

====
